---- MODULE Spec2Model ----
(***************************************************************************)
(* A model of the snmpsim command responder                                *)
(* (src/snmpsim/commands/responder.py): the record store lookup engine     *)
(* (DataFile.processVarBinds, SnmprecRecordMixIn.evaluateValue), the       *)
(* open-file queue (DataFile.getHandles), the selection of the data file   *)
(* that serves a request (probeContext, probeHashContext), the v2c request *)
(* pipeline (commandResponderCbFun), the GETBULK expansion                 *)
(* (getBulkHandler) and the SNMPv3 command responders.                     *)
(*                                                                         *)
(* Abstractions.  A record file is a sequence of records; the byte offset  *)
(* of a record is its 0-based ordinal, the end of the file is the offset   *)
(* Len(file).  Text is a sequence of character codes.  A tag is the        *)
(* parsed form of the TAG field: its type code, the variation module it    *)
(* names ("" for none) and whether it marks the record as a subtree.       *)
(***************************************************************************)
EXTENDS Integers, Sequences, FiniteSets, TLC

VARIABLES
    file,         \* the records every data file holds (the files are copies)
    recordIndex,  \* the index of the record file, built at startup
    config,       \* what the process runs with: maxVarBinds, interpreter,
                  \* DataFile.maxQueueEntries, --v2c-arch
    dataFiles,    \* the agent identifiers getDataFiles found, in a set
    textPos,      \* position of each data file's text handle
    isOpen,       \* the data files whose record index holds open handles
    openedQueue,  \* DataFile.openedQueue
    req,          \* the request being / last served
    rsp,          \* what the backend (processVarBinds / getBulkHandler) returned
    sent,         \* the response message handed to the transport, or NoMsg
    walk,         \* state of a GETNEXT walk driven by a manager
    bulk,         \* what getBulkHandler worked out: N, R, rounds made
    reqMsg,       \* the SNMP message commandResponderCbFun is handling
    selected,     \* the context name and the controller chosen for the request
    pending,      \* the state references the SNMP engine holds
    history,      \* what the data files logged while the queue was observed
    probe,        \* a call of probeContext: its arguments and what it yielded
    agentContexts,   \* the dictionary each module keeps for each data file
    recordContexts,  \* the dictionary each module keeps for each record
    phase,        \* where main is: the step and how far its loop has come
    modules,      \* how often init and shutdown of each loaded module ran,
                  \* and whether 'load FAILED' or 'shutdown FAILED' was
                  \* logged for it
    transportDispatcher,  \* the transports registered, and whether it is closed
    snmpEngines,  \* the SNMP engines main has configured, in their order
    locals,       \* the local variables of the loop main is in
    disk          \* the file system: the data directory main was given and
                  \* the file found below it; or the modification times of
                  \* a text file and of its index file, what the index file
                  \* holds, and the last indexing

vars == <<file, recordIndex, config, dataFiles, textPos, isOpen, openedQueue,
          req, rsp, sent, walk, bulk, reqMsg, selected, pending, history,
          probe, agentContexts, recordContexts, phase, modules,
          transportDispatcher, snmpEngines, locals, disk>>

\* what only the configuration steps of main set
startupVars == <<snmpEngines, locals, disk>>

\* what main leaves alone once the dispatcher runs
mainVars == <<phase, modules, transportDispatcher, startupVars>>

(***************************************************************************)
(* Bounds of the model.                                                    *)
(***************************************************************************)
\* most records in a record file
MaxRecs == 2
\* most variable bindings in a GET / GETNEXT / SET request
MaxReqLen == 1
\* the data files of the data directory are numbered 1..MaxDataFiles
MaxDataFiles == 4

(***************************************************************************)
(* OIDs: sequences of unsigned integers, ordered lexicographically.        *)
(***************************************************************************)
Min(a, b) == IF a <= b THEN a ELSE b
Max(a, b) == IF a >= b THEN a ELSE b

\* pyasn1 ObjectIdentifier.isPrefixOf
IsPrefixOf(p, o) ==
    /\ Len(p) <= Len(o)
    /\ \A i \in 1..Len(p) : p[i] = o[i]

\* tuple comparison of two OIDs (a < b)
OidLess(a, b) ==
    \/ \E i \in 1..Min(Len(a), Len(b)) :
          /\ a[i] < b[i]
          /\ \A j \in 1..(i-1) : a[j] = b[j]
    \/ /\ Len(a) < Len(b)
       /\ IsPrefixOf(a, b)

\* OIDs a record may carry, and OIDs a manager may ask for
RecOids == { <<1>>, <<1, 1>>, <<2>> }
ReqOids == RecOids \cup { <<1, 0>>, <<1, 2>>, <<3>> }

(***************************************************************************)
(* SNMP values.  A value is [type, v] with v a sequence of naturals.       *)
(***************************************************************************)
Val(t, v) == [type |-> t, v |-> v]
Null == Val("Null", <<>>)
noSuchInstance == Val("NoSuchInstance", <<>>)
noSuchObject == Val("NoSuchObject", <<>>)
endOfMib == Val("EndOfMibView", <<>>)

(***************************************************************************)
(* Record grammar.                                                         *)
(***************************************************************************)
Tag(code, mod, sub) == [code |-> code, mod |-> mod, subtree |-> sub]

\* variation modules that are loaded; the alias tells how variate behaves
variationModules == { "val", "eom", "nodata", "err", "numeric" }

\* decimal digits are the character codes 48..57
IsDigit(c) == c \in 48..57

RECURSIVE DecimalOf(_)
DecimalOf(s) ==
    IF s = <<>> THEN 0
    ELSE 10 * DecimalOf(SubSeq(s, 1, Len(s) - 1)) + (s[Len(s)] - 48)

\* the text a record of OID o carries in its VALUE field: the arcs as digits
DigitsOf(o) == [i \in 1..Len(o) |-> 48 + o[i]]

\* the tags a record may carry and the VALUE field that goes with them
PlainTags == { Tag("4", "", FALSE), Tag("70", "", FALSE), Tag("2", "", FALSE) }
VariationTags ==
      { Tag("4", m, FALSE) : m \in variationModules \ { "numeric" } }
 \cup { Tag("", m, TRUE) : m \in { "val", "eom" } }
RecTags == PlainTags \cup VariationTags

RawValue(o, tag) ==
    CASE tag.code = "4"  -> <<65>> \o DigitsOf(o)     \* "A<digits>"
      [] tag.code = "70" -> DigitsOf(o)               \* "<digits>"
      [] tag.code = "2"  -> DigitsOf(o) \o <<120>>    \* "<digits>x": not a number
      [] OTHER           -> <<>>

Rec(o, tag) == [oid |-> o, tag |-> tag, value |-> RawValue(o, tag)]

IsPlain(r) == r.tag.mod = ""
\* a plain record whose VALUE decodes under its TAG
IsWellFormed(r) ==
    /\ IsPlain(r)
    /\ r.tag.code \in { "4", "70" } \/ \A i \in 1..Len(r.value) : IsDigit(r.value[i])

\* snmprec.SnmprecRecord.evaluateValue: the typed value of a TAG / VALUE pair
DecodeValue(code, raw) ==
    CASE code = "4" ->
            [exc |-> "none", val |-> Val("OctetString", raw)]
      [] code \in { "2", "70" } ->
            IF \A i \in 1..Len(raw) : IsDigit(raw[i])
            THEN [exc |-> "none",
                  val |-> Val(IF code = "2" THEN "Integer32" ELSE "Counter64",
                              <<DecimalOf(raw)>>)]
            ELSE [exc |-> "error", val |-> Null]
      [] OTHER ->
            [exc |-> "error", val |-> Null]

(***************************************************************************)
(* Record files: strictly ascending sequences of records.                  *)
(***************************************************************************)
\* the ascending files of n records
RECURSIVE FilesOfLen(_, _)
FilesOfLen(n, tags) ==
    IF n = 0 THEN { <<>> }
    ELSE UNION { { Append(f, Rec(o, t)) :
                     o \in { p \in RecOids :
                               f = <<>> \/ OidLess(f[Len(f)].oid, p) },
                     t \in tags } :
                 f \in FilesOfLen(n - 1, tags) }

IsAscending(f) == \A i \in 1..(Len(f) - 1) : OidLess(f[i].oid, f[i+1].oid)

Files(tags) ==
    { f \in UNION { FilesOfLen(n, tags) : n \in 0..MaxRecs } : IsAscending(f) }

(***************************************************************************)
(* Record index (snmpsim.record.search.database.RecordIndex): one entry    *)
(* per record, keyed by the OID, holding <<offset, subtreeFlag,            *)
(* prevOffset>>.                                                           *)
(***************************************************************************)
NoOffset == 0 - 1

\* the key 'last' the lookup engine asks for at the end of the file
LAST == <<NoOffset>>

\* the stack of open subtree parents after the parents that do not cover o
\* have been popped
RECURSIVE PopParents(_, _, _)
PopParents(f, stack, o) ==
    IF stack = <<>> \/ IsPrefixOf(f[Head(stack) + 1].oid, o) THEN stack
    ELSE PopParents(f, Tail(stack), o)

\* RecordIndex.build: one pass over the records, the stack's top first
RECURSIVE BuildEntries(_, _, _, _)
BuildEntries(f, offset, stack, acc) ==
    IF offset >= Len(f) THEN acc
    ELSE LET r == f[offset + 1]
             open == PopParents(f, stack, r.oid)
             prev == IF open = <<>> THEN NoOffset ELSE Head(open)
             entry == [oid |-> r.oid, offset |-> offset,
                       subtreeFlag |-> IF r.tag.subtree THEN 1 ELSE 0,
                       prevOffset |-> prev]
         IN  BuildEntries(f, offset + 1,
                          IF r.tag.subtree THEN <<offset>> \o open ELSE open,
                          Append(acc, entry))

RecordIndexOf(f) == BuildEntries(f, 0, <<>>, <<>>)

\* RecordIndex.lookup: the entry of the key, or a KeyError
IndexHasKey(db, key) == \E i \in 1..Len(db) : db[i].oid = key
IndexLookup(db, key) == db[CHOOSE i \in 1..Len(db) : db[i].oid = key]

\* snmpsim.record.search.file.searchRecordByOid: binary search by OID that
\* rounds up to the next greater record; Len(f) when there is none
RECURSIVE SearchLoop(_, _, _, _)
SearchLoop(f, oid, lo, hi) ==
    IF lo >= hi THEN lo
    ELSE LET mid == (lo + hi) \div 2
             midval == f[mid + 1].oid
         IN  IF OidLess(midval, oid) THEN SearchLoop(f, oid, mid + 1, hi)
             ELSE IF OidLess(oid, midval) THEN SearchLoop(f, oid, lo, mid)
             ELSE mid

searchRecordByOid(oid, f) == SearchLoop(f, oid, 0, Len(f))

\* snmpsim.record.search.file.getRecord: the line at the handle's position
\* (NoOffset for the empty line read at the end of the file) and the
\* position after it
getRecord(f, pos) ==
    IF pos < Len(f) THEN [line |-> pos, pos |-> pos + 1]
    ELSE [line |-> NoOffset, pos |-> pos]

(***************************************************************************)
(* Variation modules: variate is the module's, not the simulator's.  The   *)
(* alias tells what the module does when called; a value it returns        *)
(* records the flags it was called with.                                   *)
(***************************************************************************)
Bit(b) == IF b THEN 1 ELSE 0

\* the integer the numeric module returns when it is called for a record
\* the first time; every call after returns one more than the call before.
\* Variate has the first value, Served adds the count the module keeps in
\* the record's dictionary.
NumericStart == 7

Variate(modName, oid, context) ==
    CASE modName = "val" ->
            [exc |-> "none",
             oid |-> IF context.subtreeFlag THEN context.origOid ELSE oid,
             val |-> Val("Opaque",
                         <<Bit(context.exactMatch), Bit(context.subtreeFlag)>>
                            \o oid)]
      [] modName = "eom" ->
            [exc |-> "none", oid |-> oid, val |-> endOfMib]
      [] modName = "nodata" ->
            [exc |-> "nodata", oid |-> oid, val |-> Null]
      [] modName = "numeric" ->
            [exc |-> "none", oid |-> oid,
             val |-> Val("Integer32", <<NumericStart>>)]
      [] OTHER ->
            [exc |-> "error", oid |-> oid, val |-> Null]

(***************************************************************************)
(* SnmprecRecordMixIn.evaluateValue and evaluate.  The result is           *)
(* [exc, oid, val]: exc is "none", "nodata" (NoDataNotification) or        *)
(* "error" (any other exception).                                          *)
(***************************************************************************)
\* evaluateValue with the exactMatch test of line 258 lost: every GET of a
\* plain record is short-circuited
evaluateValueLosesExactMatch(oid, tag, value, context) ==
    IF tag.mod # "" THEN
        IF tag.mod \in variationModules
        THEN Variate(tag.mod, oid, context)
        ELSE [exc |-> "error", oid |-> oid, val |-> Null]
    ELSE IF ~context.nextFlag \/ context.setFlag
    THEN [exc |-> "none", oid |-> context.origOid, val |-> context.errorStatus]
    ELSE LET d == DecodeValue(tag.code, value)
         IN  [exc |-> d.exc, oid |-> oid, val |-> d.val]

\* evaluateValue with the short circuit of lines 257-259 left to SET alone
evaluateValueServesInexact(oid, tag, value, context) ==
    IF tag.mod # "" THEN
        IF tag.mod \in variationModules
        THEN Variate(tag.mod, oid, context)
        ELSE [exc |-> "error", oid |-> oid, val |-> Null]
    ELSE IF context.setFlag
    THEN [exc |-> "none", oid |-> context.origOid, val |-> context.errorStatus]
    ELSE LET d == DecodeValue(tag.code, value)
         IN  [exc |-> d.exc, oid |-> oid, val |-> d.val]

\* evaluateValue with the setFlag test of line 258 lost: a SET is served as
\* a GET
evaluateValueIgnoresSet(oid, tag, value, context) ==
    IF tag.mod # "" THEN
        IF tag.mod \in variationModules
        THEN Variate(tag.mod, oid, context)
        ELSE [exc |-> "error", oid |-> oid, val |-> Null]
    ELSE IF ~context.nextFlag /\ ~context.exactMatch
    THEN [exc |-> "none", oid |-> context.origOid, val |-> context.errorStatus]
    ELSE LET d == DecodeValue(tag.code, value)
         IN  [exc |-> d.exc, oid |-> oid, val |-> d.val]

evaluateValue(oid, tag, value, context) ==
    IF tag.mod # "" THEN
        IF tag.mod \in variationModules
        THEN Variate(tag.mod, oid, context)
        ELSE [exc |-> "error", oid |-> oid, val |-> Null]
    ELSE IF (~context.nextFlag /\ ~context.exactMatch) \/ context.setFlag
    THEN [exc |-> "none", oid |-> context.origOid, val |-> context.errorStatus]
    ELSE LET d == DecodeValue(tag.code, value)
         IN  [exc |-> d.exc, oid |-> oid, val |-> d.val]

evaluate(rec, context) == evaluateValue(rec.oid, rec.tag, rec.value, context)

(***************************************************************************)
(* The open-file queue.  Data files are numbered; Self is the data file    *)
(* the requests go to when there is one data file only.                    *)
(***************************************************************************)
\* the class attribute DataFile.maxQueueEntries as the source sets it; the
\* value the process runs with is config.maxQueueEntries
maxQueueEntries == 31

Self == 1

DataFiles == 1..MaxDataFiles

\* getHandles that opens nothing in the call that closed a data file
getHandlesFailsAfterClosing(self, queue, open, openOk) ==
    LET evict == self \notin open /\ Len(queue) > config.maxQueueEntries
        closed == IF evict THEN open \ { Head(queue) } ELSE open
        queued == IF self \in open THEN queue
                  ELSE (IF evict THEN Tail(queue) ELSE queue) \o <<self>>
        ok == self \in open \/ (openOk /\ ~evict)
    IN  [ok |-> ok,
         queue |-> queued,
         open |-> IF ok THEN closed \cup { self } ELSE closed]

\* DataFile.getHandles: openOk tells whether RecordIndex.getHandles can open
\* the files when they are not open (it raises SnmpsimError otherwise)
getHandles(self, queue, open, openOk) ==
    LET evict == self \notin open /\ Len(queue) > config.maxQueueEntries
        closed == IF evict THEN open \ { Head(queue) } ELSE open
        queued == IF self \in open THEN queue
                  ELSE (IF evict THEN Tail(queue) ELSE queue) \o <<self>>
        ok == self \in open \/ openOk
    IN  [ok |-> ok,
         queue |-> queued,
         open |-> IF ok THEN closed \cup { self } ELSE closed]

(***************************************************************************)
(* DataFile.processVarBinds.                                               *)
(***************************************************************************)
VarBind(o, v) == [oid |-> o, val |-> v]

\* Refine with the test of line 395 inverted: GETNEXT stays on the matched
\* record
RefineStaysOnMatch(f, db, oid, nextFlag, st) ==
    IF st.exactMatch THEN
        IF nextFlag /\ st.subtreeFlag THEN
            LET nxt == getRecord(f, st.pos)
            IN  IF nxt.line # NoOffset /\ IndexHasKey(db, f[nxt.line + 1].oid)
                THEN [st EXCEPT !.line = nxt.line, !.pos = nxt.pos,
                                !.subtreeFlag =
                                   IndexLookup(db, f[nxt.line + 1].oid).subtreeFlag = 1]
                ELSE [st EXCEPT !.line = NoOffset, !.pos = nxt.pos]
        ELSE st
    ELSE
        LET key == IF st.line # NoOffset THEN f[st.line + 1].oid ELSE LAST
        IN  IF ~IndexHasKey(db, key) THEN [st EXCEPT !.line = NoOffset]
            ELSE LET prevOffset == IndexLookup(db, key).prevOffset
                     prv == getRecord(f, prevOffset)
                 IN  IF prevOffset >= 0
                     THEN IF IsPrefixOf(f[prv.line + 1].oid, oid)
                          THEN [st EXCEPT !.line = prv.line, !.pos = prv.pos,
                                          !.subtreeFlag = TRUE]
                          ELSE [st EXCEPT !.pos = prv.pos]
                     ELSE st

\* Refine without lines 417-418: at the end of the file the matched line
\* stays the line to evaluate
RefineKeepsLastLine(f, db, oid, nextFlag, st) ==
    IF st.exactMatch THEN
        IF nextFlag /\ ~st.subtreeFlag THEN
            LET nxt == getRecord(f, st.pos)
            IN  IF nxt.line # NoOffset /\ IndexHasKey(db, f[nxt.line + 1].oid)
                THEN [st EXCEPT !.line = nxt.line, !.pos = nxt.pos,
                                !.subtreeFlag =
                                   IndexLookup(db, f[nxt.line + 1].oid).subtreeFlag = 1]
                ELSE [st EXCEPT !.pos = nxt.pos]
        ELSE st
    ELSE
        LET key == IF st.line # NoOffset THEN f[st.line + 1].oid ELSE LAST
        IN  IF ~IndexHasKey(db, key) THEN [st EXCEPT !.line = NoOffset]
            ELSE LET prevOffset == IndexLookup(db, key).prevOffset
                     prv == getRecord(f, prevOffset)
                 IN  IF prevOffset >= 0
                     THEN IF IsPrefixOf(f[prv.line + 1].oid, oid)
                          THEN [st EXCEPT !.line = prv.line, !.pos = prv.pos,
                                          !.subtreeFlag = TRUE]
                          ELSE [st EXCEPT !.pos = prv.pos]
                     ELSE st

\* lines 394-452: one pass of the refinement, choosing the line to evaluate.
\* st holds the loop's variables line, exactMatch, subtreeFlag and the
\* position of the text handle.
Refine(f, db, oid, nextFlag, st) ==
    IF st.exactMatch THEN
        IF nextFlag /\ ~st.subtreeFlag THEN
            LET nxt == getRecord(f, st.pos)
            IN  IF nxt.line # NoOffset /\ IndexHasKey(db, f[nxt.line + 1].oid)
                THEN [st EXCEPT !.line = nxt.line, !.pos = nxt.pos,
                                !.subtreeFlag =
                                   IndexLookup(db, f[nxt.line + 1].oid).subtreeFlag = 1]
                ELSE [st EXCEPT !.line = NoOffset, !.pos = nxt.pos]
        ELSE st
    ELSE
        LET key == IF st.line # NoOffset THEN f[st.line + 1].oid ELSE LAST
        IN  IF ~IndexHasKey(db, key) THEN [st EXCEPT !.line = NoOffset]
            ELSE LET prevOffset == IndexLookup(db, key).prevOffset
                     prv == getRecord(f, prevOffset)
                 IN  IF prevOffset >= 0
                     THEN IF IsPrefixOf(f[prv.line + 1].oid, oid)
                          THEN [st EXCEPT !.line = prv.line, !.pos = prv.pos,
                                          !.subtreeFlag = TRUE]
                          ELSE [st EXCEPT !.pos = prv.pos]
                     ELSE st

\* lines 459-471: the context the line is evaluated with
CallContext(vb, context, r) ==
    [origOid |-> vb.oid,
     origValue |-> vb.val,
     subtreeFlag |-> r.subtreeFlag,
     exactMatch |-> r.exactMatch,
     errorStatus |-> context.errorStatus,
     varsTotal |-> context.varsTotal,
     varsRemaining |-> context.varsRemaining,
     nextFlag |-> context.nextFlag,
     setFlag |-> context.setFlag]

\* lines 455-456 and 489-490: the variable binding gets the error status
Failed(vb, context, pos, calls) ==
    [exc |-> "none", oid |-> vb.oid, val |-> context.errorStatus,
     pos |-> pos, calls |-> calls]

\* lines 393-494: the `while True` loop of one variable binding.  The result
\* is [exc, oid, val, pos, calls]; exc is "none", "nodata" (the exception
\* leaves processVarBinds) or "hang" (the loop does not end: every pass
\* evaluates a line, and more passes were made than a file of Len(f) records
\* allows when every pass moves on).  calls lists the evaluate calls made.
RECURSIVE LookupLoop(_, _, _, _, _)

\* lines 473-494 with the last except clause lost: the error of one line
\* leaves processVarBinds
AfterEvaluateRaises(f, db, vb, context, r, calls, e) ==
    CASE e.exc \in { "nodata", "error" } ->
            [exc |-> e.exc, oid |-> vb.oid, val |-> Null,
             pos |-> r.pos, calls |-> calls]
      [] e.exc = "none" /\ e.val = endOfMib ->
            LookupLoop(f, db, vb, context,
                       [r EXCEPT !.exactMatch = TRUE,
                                 !.subtreeFlag = FALSE,
                                 !.passes = r.passes + 1,
                                 !.calls = calls])
      [] OTHER ->
            [exc |-> "none", oid |-> e.oid, val |-> e.val,
             pos |-> r.pos, calls |-> calls]

\* lines 473-494 without the assignments of 478-479: after endOfMib the loop
\* goes on with the flags it had
AfterEvaluateKeepsFlags(f, db, vb, context, r, calls, e) ==
    CASE e.exc = "nodata" ->
            [exc |-> "nodata", oid |-> vb.oid, val |-> Null,
             pos |-> r.pos, calls |-> calls]
      [] e.exc = "error" ->
            Failed(vb, context, r.pos, calls)
      [] e.exc = "none" /\ e.val = endOfMib ->
            LookupLoop(f, db, vb, context,
                       [r EXCEPT !.passes = r.passes + 1, !.calls = calls])
      [] OTHER ->
            [exc |-> "none", oid |-> e.oid, val |-> e.val,
             pos |-> r.pos, calls |-> calls]

\* lines 473-494: what the loop does with the result e of evaluate
AfterEvaluate(f, db, vb, context, r, calls, e) ==
    CASE e.exc = "nodata" ->
            [exc |-> "nodata", oid |-> vb.oid, val |-> Null,
             pos |-> r.pos, calls |-> calls]
      [] e.exc = "error" ->
            Failed(vb, context, r.pos, calls)
      [] e.exc = "none" /\ e.val = endOfMib ->
            LookupLoop(f, db, vb, context,
                       [r EXCEPT !.exactMatch = TRUE,
                                 !.subtreeFlag = FALSE,
                                 !.passes = r.passes + 1,
                                 !.calls = calls])
      [] OTHER ->
            [exc |-> "none", oid |-> e.oid, val |-> e.val,
             pos |-> r.pos, calls |-> calls]

\* lines 454-475: no line, or the line r chose is evaluated
AfterRefine(f, db, vb, context, r) ==
    IF r.line = NoOffset THEN Failed(vb, context, r.pos, r.calls)
    ELSE AfterEvaluate(f, db, vb, context, r,
                       Append(r.calls, [line |-> r.line,
                                        context |-> CallContext(vb, context, r)]),
                       evaluate(f[r.line + 1], CallContext(vb, context, r)))

LookupLoop(f, db, vb, context, st) ==
    IF st.passes > Len(f) + 2
    THEN [exc |-> "hang", oid |-> vb.oid, val |-> Null,
          pos |-> st.pos, calls |-> st.calls]
    ELSE AfterRefine(f, db, vb, context,
                     Refine(f, db, vb.oid, context.nextFlag, st))

\* the lookup with the offset of the index entry not followed
StartOfReadsFirstLine(f, db, oid, calls) ==
    LET exact == IndexHasKey(db, oid)
        got == getRecord(f, 0)
    IN  [line |-> got.line,
         pos |-> got.pos,
         exactMatch |-> exact,
         subtreeFlag |-> exact /\ IndexLookup(db, oid).subtreeFlag = 1,
         passes |-> 1,
         calls |-> calls]

\* lines 371-391: where the lookup of one variable binding starts
StartOf(f, db, oid, calls) ==
    LET exact == IndexHasKey(db, oid)
        offset == IF exact THEN IndexLookup(db, oid).offset
                  ELSE searchRecordByOid(oid, f)
        got == getRecord(f, offset)
    IN  [line |-> got.line,
         pos |-> got.pos,
         exactMatch |-> exact,
         subtreeFlag |-> exact /\ IndexLookup(db, oid).subtreeFlag = 1,
         passes |-> 1,
         calls |-> calls]

\* lines 361-503: the loop over the request's variable bindings
RECURSIVE VarBindsLoop(_, _, _, _, _, _)

\* line 496 as rspVarBinds.insert(0, ...): the answers come out in reverse
CollectPrepends(f, db, varBinds, context, i, acc, one) ==
    IF one.exc # "none"
    THEN [exc |-> one.exc, varBinds |-> <<>>,
          pos |-> one.pos, calls |-> one.calls]
    ELSE VarBindsLoop(f, db, varBinds, context, i + 1,
                      [exc |-> "none",
                       varBinds |-> <<VarBind(one.oid, one.val)>>
                                       \o acc.varBinds,
                       pos |-> one.pos,
                       calls |-> one.calls])

\* line 496, or the exception that leaves the loop: one is what the lookup
\* of variable binding i came to
Collect(f, db, varBinds, context, i, acc, one) ==
    IF one.exc # "none"
    THEN [exc |-> one.exc, varBinds |-> <<>>,
          pos |-> one.pos, calls |-> one.calls]
    ELSE VarBindsLoop(f, db, varBinds, context, i + 1,
                      [exc |-> "none",
                       varBinds |-> Append(acc.varBinds,
                                           VarBind(one.oid, one.val)),
                       pos |-> one.pos,
                       calls |-> one.calls])

VarBindsLoop(f, db, varBinds, context, i, acc) ==
    IF i > Len(varBinds) THEN acc
    ELSE Collect(f, db, varBinds, context, i, acc,
                 LookupLoop(f, db, varBinds[i],
                            [context EXCEPT !.varsRemaining = Len(varBinds) - i],
                            StartOf(f, db, varBinds[i].oid, acc.calls)))

\* the whole of processVarBinds, lines 343-503, given the handles' state
processVarBinds(f, db, varBinds, nextFlag, setFlag, handlesOk, pos) ==
    LET errorStatus == IF nextFlag THEN endOfMib ELSE noSuchInstance
        context == [nextFlag |-> nextFlag, setFlag |-> setFlag,
                    errorStatus |-> errorStatus,
                    varsTotal |-> Len(varBinds),
                    varsRemaining |-> Len(varBinds)]
    IN  IF ~handlesOk
        THEN [exc |-> "none",
              varBinds |-> [i \in 1..Len(varBinds) |->
                               VarBind(varBinds[i].oid, errorStatus)],
              pos |-> pos, calls |-> <<>>]
        ELSE VarBindsLoop(f, db, varBinds, context, 1,
                          [exc |-> "none", varBinds |-> <<>>,
                           pos |-> pos, calls |-> <<>>])

(***************************************************************************)
(* Requests and the initial state.                                         *)
(***************************************************************************)
\* the value a SET request carries
SetValue == Val("OctetString", <<66>>)

VarBindsOf(oids, v) == [i \in 1..Len(oids) |-> VarBind(oids[i], v)]

OidSeqs(n) == UNION { [1..k -> ReqOids] : k \in 1..n }

NoReq == [pdu |-> "none", varBinds |-> <<>>]
NoRsp == [exc |-> "none", varBinds |-> <<>>, calls |-> <<>>]
NoMsg == [msgVer |-> 0 - 1, errorStatus |-> 0, errorIndex |-> 0,
          varBinds |-> <<>>]
NoWalk == [status |-> "off", cur |-> <<>>, visited |-> <<>>]
NoBulk == [N |-> 0, R |-> 0, rounds |-> 0]
NoReqMsg == [msgVer |-> 0 - 1]

NoSelection == [request |-> <<>>, contextName |-> "", mibInstrum |-> 0 - 1,
                candidate |-> 0, error |-> "none"]
NoProbe == [args |-> <<>>, candidates |-> <<>>]

(***************************************************************************)
(* The dictionaries of the variation modules.  variationModules[alias] is  *)
(* (module, agentContexts, recordContexts): agentContexts[dataFile] and    *)
(* recordContexts[dataFile][oid] are dictionaries the module keeps what it *)
(* likes in.  agentContexts is keyed by <<alias, dataFile>>,               *)
(* recordContexts by <<alias, dataFile, oid>>.  A dictionary is            *)
(* [id, counter]: id counts the dictionaries that were made for its key,   *)
(* which tells a dictionary from one that replaced it; counter is what the *)
(* numeric module keeps in it (0 in an empty one).                         *)
(***************************************************************************)
NoContexts == [k \in {} |-> 0]

ContextsOf(st) == [agent |-> st.agent, record |-> st.record]

\* {}: a new, empty dictionary for the key
NewDict(contexts, key) ==
    [id |-> IF key \in DOMAIN contexts THEN contexts[key].id + 1 ELSE 1,
     counter |-> 0]

\* contexts[key] = dict
WithDict(contexts, key, dict) ==
    [k \in DOMAIN contexts \cup { key } |->
        IF k = key THEN dict ELSE contexts[k]]

\* lines 227-228: the module's dictionary for the data file
PreparedAgent(c, modName, self) ==
    IF <<modName, self>> \in DOMAIN c.agent THEN c
    ELSE [c EXCEPT !.agent = WithDict(c.agent, <<modName, self>>,
                                      NewDict(c.agent, <<modName, self>>))]

\* lines 230-239: the module's dictionary for the record of the data file
PreparedRecord(c, modName, self, oid) ==
    IF <<modName, self, oid>> \in DOMAIN c.record THEN c
    ELSE [c EXCEPT !.record = WithDict(c.record, <<modName, self, oid>>,
                                       NewDict(c.record,
                                               <<modName, self, oid>>))]

\* lines 222-241 with the tests of lines 227, 230 and 238 lost: a call
\* starts with new dictionaries
PreparedAnew(c, modName, self, oid) ==
    [agent |-> WithDict(c.agent, <<modName, self>>,
                        NewDict(c.agent, <<modName, self>>)),
     record |-> WithDict(c.record, <<modName, self, oid>>,
                         NewDict(c.record, <<modName, self, oid>>))]

\* lines 222-241: the dictionaries are 'prepared on first reference'
Prepared(c, modName, self, oid) ==
    PreparedRecord(PreparedAgent(c, modName, self), modName, self, oid)

\* what variate leaves in the dictionaries it was handed: the numeric
\* module counts its calls in the record's
Variated(c, modName, self, oid) ==
    IF modName = "numeric"
    THEN [c EXCEPT !.record[<<modName, self, oid>>].counter = @ + 1]
    ELSE c

\* one call of evaluate, on record rec of data file self
Evaluated(c, self, rec) ==
    IF rec.tag.mod # "" /\ rec.tag.mod \in variationModules
    THEN Variated(Prepared(c, rec.tag.mod, self, rec.oid), rec.tag.mod, self,
                  rec.oid)
    ELSE c

\* the dictionaries after the first n of the calls of evaluate
RECURSIVE ContextsAfter(_, _, _, _)
ContextsAfter(c, self, calls, n) ==
    IF n = 0 THEN c
    ELSE Evaluated(ContextsAfter(c, self, calls, n - 1), self,
                   file[calls[n].line + 1])

\* what call n of evaluate returned for the value val Variate has: the
\* numeric module adds the counter it found in the record's dictionary
Returned(c, self, calls, n, val) ==
    IF file[calls[n].line + 1].tag.mod # "numeric" THEN val
    ELSE Val(val.type,
             <<val.v[1]
                + Prepared(ContextsAfter(c, self, calls, n - 1), "numeric",
                           self, file[calls[n].line + 1].oid)
                     .record[<<"numeric", self,
                               file[calls[n].line + 1].oid>>].counter>>)

\* the last call of evaluate made for variable binding i, 0 for none
LastCallFor(calls, i) ==
    LET made == { n \in DOMAIN calls :
                  calls[n].context.varsTotal
                    - calls[n].context.varsRemaining = i }
    IN  IF made = {} THEN 0 ELSE CHOOSE n \in made : \A m \in made : m <= n

\* the variable bindings processVarBinds answers with
Answers(c, self, r) ==
    [i \in DOMAIN r.varBinds |->
        IF LastCallFor(r.calls, i) = 0 THEN r.varBinds[i]
        ELSE [oid |-> r.varBinds[i].oid,
              val |-> Returned(c, self, r.calls, LastCallFor(r.calls, i),
                               r.varBinds[i].val)]]

(***************************************************************************)
(* main.  phase is where main is: at is the step ("loading" the variation  *)
(* modules, "initializing" them, "configuring" the data files and the      *)
(* transports of one SNMP engine after the other, "running" the            *)
(* dispatcher, "stopping", and "exited" or "crashed" when the process is   *)
(* gone), n counts what the loop of the step has done, engine is the SNMP  *)
(* engine being configured, transportIndex the dictionary of line 1562,    *)
(* cause what ended the dispatcher loop or the process ("none" before).    *)
(***************************************************************************)
\* pysnmp's udp.domainName, udp6.domainName and unix.domainName
udpDomainName == <<1, 3, 6, 1, 6, 1, 1>>
udp6DomainName == <<1, 3, 6, 1, 2, 1, 100, 1, 2>>
unixDomainName == <<1, 3, 6, 1, 2, 1, 100, 1, 13>>

\* main, lines 1490-1493: the transport domain of the k-th endpoint of a
\* transport (k from 0)
EndpointDomain(domainName, k, transportIdOffset) ==
    domainName \o <<transportIdOffset + k>>

Families == { "udpv4", "udpv6", "unix" }

NoIndex == [t \in Families |-> 0]

At(step, n) ==
    [at |-> step, n |-> n, engine |-> 1, transportIndex |-> NoIndex,
     cause |-> "none"]

\* runDispatcher is running
Running == At("running", 0)

\* every module is loaded and its init was called
Initialised ==
    [m \in variationModules |->
        [loaded |-> TRUE, init |-> 1, initFailed |-> FALSE, shutdown |-> 0,
         failed |-> FALSE]]

\* a transport the dispatcher has: its domain, the option of v3Args that
\* configured the endpoint and the SNMP engine it belongs to
Transport(transportDomain, endpoint, engine) ==
    [transportDomain |-> transportDomain, endpoint |-> endpoint,
     engine |-> engine]

\* AsyncoreDispatcher()
NotListening == [transports |-> <<>>, closed |-> FALSE]

\* two UDPv4 endpoints with --transport-id-offset=0
Listening ==
    [transports |-> <<Transport(EndpointDomain(udpDomainName, 0, 0), 1, 1),
                      Transport(EndpointDomain(udpDomainName, 1, 0), 2, 1)>>,
     closed |-> FALSE]

\* main is in no loop
NoLocals == <<>>
\* no index file is looked at
NoDisk == <<>>

\* every data file is closed, nothing is being served, no module has been
\* called, no SNMP engine is being watched; the process has started when the data files are indexed too
\* and the dispatcher runs
Quiet ==
    /\ textPos = [d \in DataFiles |-> 0]
    /\ isOpen = {}
    /\ openedQueue = <<>>
    /\ req = NoReq
    /\ rsp = NoRsp
    /\ sent = NoMsg
    /\ bulk = NoBulk
    /\ reqMsg = NoReqMsg
    /\ selected = NoSelection
    /\ pending = {}
    /\ history = <<>>
    /\ probe = NoProbe
    /\ agentContexts = NoContexts
    /\ recordContexts = NoContexts
    /\ snmpEngines = <<>>

Started ==
    /\ recordIndex = RecordIndexOf(file)
    /\ Quiet
    /\ locals = NoLocals
    /\ disk = NoDisk
    /\ phase = Running
    /\ modules = Initialised
    /\ transportDispatcher = Listening

\* a data directory that holds public.snmprec only
InitStore(tags) ==
    /\ file \in Files(tags)
    /\ dataFiles = { "public" }
    /\ Started

\* main: maxVarBinds = 64 unless --max-varbinds says otherwise
DefaultMaxVarBinds == 64

DefaultConfig == [maxVarBinds |-> DefaultMaxVarBinds, trueDivision |-> TRUE,
                  maxQueueEntries |-> maxQueueEntries, v2cArch |-> TRUE,
                  transportIdOffset |-> 0,
                  v3Args |-> <<"--agent-udpv4-endpoint",
                               "--agent-udpv4-endpoint">>]

InitFile(tags) ==
    /\ InitStore(tags)
    /\ config = DefaultConfig
    /\ walk = NoWalk

(***************************************************************************)
(* MibInstrumController: readVars, readNextVars and writeVars hand the     *)
(* request to processVarBinds of the data file, which is readable.         *)
(***************************************************************************)
\* the handles of the data files and the dictionaries of the modules as
\* they are, seen from data file self
Handles(self) ==
    [self |-> self, pos |-> textPos, open |-> isOpen, queue |-> openedQueue,
     agent |-> agentContexts, record |-> recordContexts]

\* one call of processVarBinds on a data file, with the handles of the data
\* files after it: a data file that was closed has no position any more,
\* its handle starts at 0 when it is opened again
Served(h, st, r) ==
    [exc |-> r.exc,
     varBinds |-> Answers(ContextsOf(st), st.self, r),
     calls |-> r.calls,
     st |-> [self |-> st.self,
             pos |-> [d \in DOMAIN st.pos |->
                        IF d = st.self THEN r.pos
                        ELSE IF d \in h.open THEN st.pos[d] ELSE 0],
             open |-> h.open, queue |-> h.queue,
             agent |-> ContextsAfter(ContextsOf(st), st.self, r.calls,
                                     Len(r.calls)).agent,
             record |-> ContextsAfter(ContextsOf(st), st.self, r.calls,
                                      Len(r.calls)).record],
     bulk |-> NoBulk]

CallWith(h, st, varBinds, nextFlag, setFlag) ==
    Served(h, st, processVarBinds(file, recordIndex, varBinds, nextFlag,
                                  setFlag, h.ok, st.pos[st.self]))

Call(st, varBinds, nextFlag, setFlag) ==
    CallWith(getHandles(st.self, st.queue, st.open, TRUE), st, varBinds,
             nextFlag, setFlag)

\* what a request leaves alone when it is handed to a controller directly
routeVars == <<dataFiles, sent, walk, bulk, reqMsg, selected, pending, probe,
               mainVars>>

BackendOf(self, pdu, oids, val, nextFlag, setFlag) ==
    /\ phase.at = "running"
    /\ req = NoReq
    /\ \E varBinds \in { VarBindsOf(oids, val) } :
       \E r \in { Call(Handles(self), varBinds, nextFlag, setFlag) } :
        /\ req' = [pdu |-> pdu, varBinds |-> varBinds]
        /\ rsp' = [exc |-> r.exc, varBinds |-> r.varBinds, calls |-> r.calls]
        /\ textPos' = r.st.pos
        /\ isOpen' = r.st.open
        /\ openedQueue' = r.st.queue
        /\ agentContexts' = r.st.agent
        /\ recordContexts' = r.st.record
        /\ UNCHANGED <<file, recordIndex, config, routeVars>>

Backend(pdu, oids, val, nextFlag, setFlag) ==
    /\ BackendOf(Self, pdu, oids, val, nextFlag, setFlag)
    /\ UNCHANGED history

\* the methods are called with the variable bindings of these OIDs
readVars(oids) == Backend("GetRequest", oids, Null, FALSE, FALSE)

readNextVars(oids) == Backend("GetNextRequest", oids, Null, TRUE, FALSE)

writeVars(oids) == Backend("SetRequest", oids, SetValue, FALSE, TRUE)

\* the call returns: the caller's request and result are dropped, the data
\* file keeps its handles and their position
Return ==
    /\ req # NoReq
    /\ rsp.exc # "hang"
    /\ req' = NoReq
    /\ rsp' = NoRsp
    /\ sent' = NoMsg
    /\ bulk' = NoBulk
    /\ reqMsg' = NoReqMsg
    /\ selected' = NoSelection
    /\ UNCHANGED <<file, recordIndex, config, dataFiles, textPos, isOpen,
                   openedQueue, walk, pending, history, probe, agentContexts,
                   recordContexts, mainVars>>

Init == InitFile(RecTags)

Next ==
    \/ \E oids \in OidSeqs(MaxReqLen) :
          \/ readVars(oids)
          \/ readNextVars(oids)
          \/ writeVars(oids)
    \/ Return

Spec == Init /\ [][Next]_vars

(***************************************************************************)
(* A manager walking the data file: GETNEXT from 0.0, then GETNEXT on the  *)
(* OID of each answer, until endOfMib comes back.  A walk that gets no     *)
(* answer stalls; a walk is cut off after Len(file) + 2 answers.           *)
(***************************************************************************)
WalkStart == <<0, 0>>

InitWalk ==
    /\ InitStore(RecTags)
    /\ config = DefaultConfig
    /\ walk = [status |-> "walking", cur |-> WalkStart, visited |-> <<>>]

WalkStep ==
    /\ walk.status = "walking"
    /\ Len(walk.visited) < Len(file) + 2
    /\ \E r \in { Call(Handles(Self), <<VarBind(walk.cur, Null)>>,
                        TRUE, FALSE) } :
        /\ req' = [pdu |-> "GetNextRequest",
                   varBinds |-> <<VarBind(walk.cur, Null)>>]
        /\ rsp' = [exc |-> r.exc, varBinds |-> r.varBinds, calls |-> r.calls]
        /\ textPos' = r.st.pos
        /\ isOpen' = r.st.open
        /\ openedQueue' = r.st.queue
        /\ agentContexts' = r.st.agent
        /\ recordContexts' = r.st.record
        /\ walk' =
             IF r.exc # "none"
             THEN [walk EXCEPT !.status = "stalled"]
             ELSE IF r.varBinds[1].val = endOfMib
             THEN [walk EXCEPT !.status = "done", !.cur = r.varBinds[1].oid]
             ELSE [status |-> "walking", cur |-> r.varBinds[1].oid,
                   visited |-> Append(walk.visited, r.varBinds[1].oid)]
        /\ UNCHANGED <<file, recordIndex, config, dataFiles, sent, bulk,
                       reqMsg, selected, pending, history, probe, mainVars>>

NextWalk == WalkStep

SpecWalk == InitWalk /\ [][NextWalk]_vars

(***************************************************************************)
(* The selection of the data file.  A context name, an agent identifier    *)
(* and a candidate are texts; a path is put together from components that  *)
(* hold no "/" themselves.  A transport domain is an OID; a transport      *)
(* address is <<host, port>>, the host as the pieces its text has between  *)
(* the colons (one piece for an IPv4 address).  The transports are UDP     *)
(* over IPv4 and over IPv6.                                                *)
(***************************************************************************)
SELF_LABEL == "self"

\* sep.join(parts)
RECURSIVE JoinWith(_, _)
JoinWith(parts, sep) ==
    IF parts = <<>> THEN ""
    ELSE IF Len(parts) = 1 THEN parts[1]
    ELSE parts[1] \o sep \o JoinWith(Tail(parts), sep)

\* '.'.join([str(x) for x in transportDomain])
Dotted(oid) == JoinWith([i \in 1..Len(oid) |-> ToString(oid[i])], ".")

\* os.path.normpath of a relative path, on its components: an empty
\* component and "." go, ".." takes away the component before it when there
\* is one that is not ".." itself
RECURSIVE NormComps(_, _)
NormComps(comps, acc) ==
    IF comps = <<>> THEN acc
    ELSE IF Head(comps) \in { "", "." }
    THEN NormComps(Tail(comps), acc)
    ELSE IF Head(comps) # ".." \/ acc = <<>> \/ acc[Len(acc)] = ".."
    THEN NormComps(Tail(comps), Append(acc, Head(comps)))
    ELSE NormComps(Tail(comps), SubSeq(acc, 1, Len(acc) - 1))

\* os.path.normpath(os.path.sep.join(candidate)).replace(os.path.sep, '/')
normpath(candidate) ==
    IF NormComps(candidate, <<>>) = <<>> THEN "."
    ELSE JoinWith(NormComps(candidate, <<>>), "/")

\* the first endpoint of UDP over IPv4 with --transport-id-offset=0, and a
\* manager's address
TransportDomain == EndpointDomain(udpDomainName, 0, 0)
TransportAddress == <<<<"127.0.0.1">>, 1161>>

\* the candidate with its last component deleted, again and again
Shorter(candidate) ==
    [i \in 1..Len(candidate) |->
        normpath(SubSeq(candidate, 1, Len(candidate) - i + 1))]

Truthy(x) == x # ""

\* lines 695-702: what the transport adds to the candidate
TransportElement(transportDomain, transportAddress) ==
    IF IsPrefixOf(udpDomainName, transportDomain)
    THEN <<JoinWith(transportAddress[1], ":")>>
    ELSE IF IsPrefixOf(udp6DomainName, transportDomain)
    THEN <<JoinWith(transportAddress[1], "_")>>
    ELSE <<>>

\* probeContext with the two layouts in the other order
probeContextLegacyFirst(transportDomain, transportAddress, contextEngineId, contextName) ==
    LET layout(engineId) ==
            SelectSeq((IF engineId # ""
                       THEN <<engineId, contextName, Dotted(transportDomain)>>
                       ELSE <<contextName, Dotted(transportDomain)>>)
                      \o TransportElement(transportDomain, transportAddress),
                      Truthy)
    IN  (IF contextEngineId # "" THEN Shorter(layout("")) ELSE <<>>)
        \o Shorter(layout(contextEngineId))

\* probeContext with the transport domain before the name
probeContextDomainFirst(transportDomain, transportAddress, contextEngineId, contextName) ==
    LET layout(engineId) ==
            SelectSeq((IF engineId # ""
                       THEN <<engineId, Dotted(transportDomain), contextName>>
                       ELSE <<Dotted(transportDomain), contextName>>)
                      \o TransportElement(transportDomain, transportAddress),
                      Truthy)
    IN  Shorter(layout(contextEngineId))
        \o (IF contextEngineId # "" THEN Shorter(layout("")) ELSE <<>>)

\* the candidates in the order the generator yields them
probeContext(transportDomain, transportAddress, contextEngineId, contextName) ==
    LET layout(engineId) ==
            SelectSeq((IF engineId # ""
                       THEN <<engineId, contextName, Dotted(transportDomain)>>
                       ELSE <<contextName, Dotted(transportDomain)>>)
                      \o TransportElement(transportDomain, transportAddress),
                      Truthy)
    IN  Shorter(layout(contextEngineId))
        \o (IF contextEngineId # "" THEN Shorter(layout("")) ELSE <<>>)

(***************************************************************************)
(* The data directory and the context tables.  dataFiles holds the agent   *)
(* identifiers getDataFiles returned; configureManagedObjects makes one    *)
(* DataFile for each, numbered here in the order of Idents.                *)
(***************************************************************************)
\* an agent identifier of more than 32 bytes
LongName == "a-community-name-of-more-than-32-bytes"

\* the identifiers a data directory of the model can hold: public.snmprec,
\* foo.snmprec, foo/1.3.6.1.6.1.1.1.snmprec, 1.3.6.1.6.1.1.1/foo.snmprec,
\* the file of the long name, self.snmprec, and
\* foo/1.3.6.1.6.1.1.1/127.0.0.1.snmprec
Idents ==
    <<"public", "foo", "foo/1.3.6.1.6.1.1.1", "1.3.6.1.6.1.1.1/foo",
      LongName, "", "foo/1.3.6.1.6.1.1.1/127.0.0.1">>

Rank(ident) == CHOOSE k \in 1..Len(Idents) : Idents[k] = ident

DataFileOf(ident) == Cardinality({ i \in dataFiles : Rank(i) <= Rank(ident) })

\* the controllers: a data file's MibInstrumController goes by the number
\* of the data file, the DataIndexInstrumController is IndexInstrum
IndexInstrum == 0
NoInstrum == 0 - 1

\* v2c: contexts[communityName] = mibInstrum for every data file, and the
\* index of the data files under "index"
contexts ==
    [name \in dataFiles \cup { "index" } |->
        IF name = "index" THEN IndexInstrum ELSE DataFileOf(name)]

\* hashlib.md5(s).hexdigest() of the identifiers; the digest of any other
\* text is a text that is no name of the model
md5(octets) ==
    CASE octets = "public" -> "4c9184f37cff01bcdc32dc486ec36961"
      [] octets = "foo" -> "acbd18db4cc2f85cedef654fccc4a4d8"
      [] octets = "foo/1.3.6.1.6.1.1.1" -> "cc7f2e85f44ee394be16165aab06fd82"
      [] octets = "1.3.6.1.6.1.1.1/foo" -> "2ef1b5ebb71f57afa9a6763c94cbd30c"
      [] octets = LongName -> "c94d6865827c5589b93464b9e2897e63"
      [] octets = "" -> "d41d8cd98f00b204e9800998ecf8427e"
      [] octets = "foo/1.3.6.1.6.1.1.1/127.0.0.1"
            -> "0978cb91f04a10f71e1ded0b019eb865"
      [] OTHER -> "md5:" \o octets

\* v3: snmpContext.registerContextName of the digest of every identifier,
\* and of the identifier itself when it has no more than 32 bytes
contextNames ==
    [name \in { md5(i) : i \in dataFiles }
              \cup { i \in dataFiles : Len(i) <= 32 } |->
        DataFileOf(CHOOSE i \in dataFiles : name = i \/ name = md5(i))]

\* a loop without the break: the last registered candidate wins
LastRegistered(probed, names) ==
    IF \E i \in DOMAIN probed : probed[i] \in names
    THEN CHOOSE i \in DOMAIN probed :
            /\ probed[i] \in names
            /\ \A j \in (i + 1)..Len(probed) : probed[j] \notin names
    ELSE 0

\* for candidate in ...: if candidate in table: break -- the place of the
\* candidate the loop breaks at, 0 when the loop runs to its end
FirstRegistered(probed, names) ==
    IF \E i \in DOMAIN probed : probed[i] \in names
    THEN CHOOSE i \in DOMAIN probed :
            /\ probed[i] \in names
            /\ \A j \in 1..(i - 1) : probed[j] \notin names
    ELSE 0

(***************************************************************************)
(* The v2c request pipeline.                                               *)
(***************************************************************************)
\* api.protoModules: SNMPv1 is 0, SNMPv2c is 1
protoModules == { 0, 1 }

\* seq[-R:]
LastOf(seq, R) ==
    IF R = 0 \/ R >= Len(seq) THEN seq
    ELSE SubSeq(seq, Len(seq) - R + 1, Len(seq))

\* M = min(M, maxVarBinds/R), as the numerator of M over R: the quotient is
\* a float when "/" is the true division, and the floor otherwise
ClampedM(M, R, cfg) ==
    IF cfg.trueDivision
    THEN IF M * R <= cfg.maxVarBinds THEN M * R ELSE cfg.maxVarBinds
    ELSE Min(M, cfg.maxVarBinds \div R) * R

\* rspVarBinds.extend(readNextVars(varBinds)): the response c with the
\* result n of the call appended
Extended(c, n) ==
    [n EXCEPT !.varBinds = IF n.exc = "none" THEN c.varBinds \o n.varBinds
                           ELSE <<>>,
              !.calls = c.calls \o n.calls]

\* a loop that asks for the successors of the same inputs in every round
RECURSIVE BulkLoopSameInputs(_, _, _, _, _, _)
BulkLoopSameInputs(c, varBinds, M, N, R, rounds) ==
    IF c.exc # "none" THEN c
    ELSE IF M = 0 \/ R = 0
    THEN [c EXCEPT !.bulk = [N |-> N, R |-> R, rounds |-> rounds]]
    ELSE IF M < 0
    THEN [c EXCEPT !.exc = "hang", !.varBinds = <<>>]
    ELSE BulkLoopSameInputs(Extended(c, Call(c.st, varBinds, TRUE, FALSE)),
                            varBinds, M - R, N, R, rounds + 1)

\* a loop that ends with the round that was answered with endOfMib only
RECURSIVE BulkLoopStopsAtEnd(_, _, _, _, _, _)
NextRoundStopsAtEnd(c, M, N, R, rounds) ==
    BulkLoopStopsAtEnd(c, LastOf(c.varBinds, R), M - R, N, R, rounds + 1)

BulkLoopStopsAtEnd(c, varBinds, M, N, R, rounds) ==
    IF c.exc # "none" THEN c
    ELSE IF \/ M = 0
            \/ R = 0
            \/ rounds > 0 /\ \A k \in 1..R : varBinds[k].val = endOfMib
    THEN [c EXCEPT !.bulk = [N |-> N, R |-> R, rounds |-> rounds]]
    ELSE IF M < 0
    THEN [c EXCEPT !.exc = "hang", !.varBinds = <<>>]
    ELSE NextRoundStopsAtEnd(Extended(c, Call(c.st, varBinds, TRUE, FALSE)),
                             M, N, R, rounds)

\* while M and R: a round takes 1 off M (R off its numerator); an M that is
\* below zero is never zero again, and the loop never ends
RECURSIVE BulkLoop(_, _, _, _, _, _)

\* lines 1210-1211: varBinds = rspVarBinds[-R:]; M -= 1
NextRound(c, M, N, R, rounds) ==
    BulkLoop(c, LastOf(c.varBinds, R), M - R, N, R, rounds + 1)

BulkLoop(c, varBinds, M, N, R, rounds) ==
    IF c.exc # "none" THEN c
    ELSE IF M = 0 \/ R = 0
    THEN [c EXCEPT !.bulk = [N |-> N, R |-> R, rounds |-> rounds]]
    ELSE IF M < 0
    THEN [c EXCEPT !.exc = "hang", !.varBinds = <<>>]
    ELSE NextRound(Extended(c, Call(c.st, varBinds, TRUE, FALSE)),
                   M, N, R, rounds)

getBulkHandler(st, reqVarBinds, nonRepeaters, maxRepetitions, cfg) ==
    LET N == Min(nonRepeaters, Len(reqVarBinds))
        R == Max(Len(reqVarBinds) - N, 0)
        M == IF R # 0 THEN ClampedM(maxRepetitions, R, cfg)
             ELSE maxRepetitions
        first == IF N # 0
                 THEN Call(st, SubSeq(reqVarBinds, 1, N), TRUE, FALSE)
                 ELSE [exc |-> "none", varBinds |-> <<>>, calls |-> <<>>,
                       st |-> st, bulk |-> NoBulk]
    IN  BulkLoop(first, LastOf(reqVarBinds, R), M, N, R, 0)

\* the PDU types of a version: SNMPv1 has no GetBulkRequestPDU
Routable(msgVer) ==
    { "GetRequest", "SetRequest", "GetNextRequest" }
    \cup (IF msgVer = 1 THEN { "GetBulkRequest" } ELSE {})

\* readVars, writeVars and readNextVars are processVarBinds with the flags of
\* the PDU type; GETBULK goes through getBulkHandler
backendFun(msg, st, cfg) ==
    IF msg.pdu = "GetBulkRequest"
    THEN getBulkHandler(st, msg.varBinds, msg.nonRepeaters,
                        msg.maxRepetitions, cfg)
    ELSE Call(st, msg.varBinds, msg.pdu = "GetNextRequest",
              msg.pdu = "SetRequest")

\* Poor man's v2c->v1 translation
errorMap ==
    [t \in { "Counter64", "NoSuchObject", "NoSuchInstance", "EndOfMibView" }
       |-> IF t = "Counter64" THEN 5 ELSE 2]

\* a loop that does not break at the first hit: the last hit wins
RECURSIVE LastInErrorMap(_, _)
LastInErrorMap(varBinds, idx) ==
    IF idx >= Len(varBinds) THEN 0 - 1
    ELSE LET later == LastInErrorMap(varBinds, idx + 1)
         IN  IF later >= 0 THEN later
             ELSE IF varBinds[idx + 1].val.type \in DOMAIN errorMap THEN idx
             ELSE 0 - 1

\* for idx in range(len(varBinds)): the idx the loop breaks at, -1 if none
RECURSIVE FirstInErrorMap(_, _)
FirstInErrorMap(varBinds, idx) ==
    IF idx >= Len(varBinds) THEN 0 - 1
    ELSE IF varBinds[idx + 1].val.type \in DOMAIN errorMap THEN idx
    ELSE FirstInErrorMap(varBinds, idx + 1)

\* the response message: the defaults of getResponse, then the translation
\* for SNMPv1, then setVarBinds
Response(msg, varBinds) ==
    LET idx == FirstInErrorMap(varBinds, 0)
    IN  IF msg.msgVer = 0 /\ idx >= 0
        THEN [msgVer |-> msg.msgVer,
              errorStatus |-> errorMap[varBinds[idx + 1].val.type],
              errorIndex |-> idx + 1,
              varBinds |-> msg.varBinds]
        ELSE [msgVer |-> msg.msgVer, errorStatus |-> 0, errorIndex |-> 0,
              varBinds |-> varBinds]

\* the response goes to the first endpoint, wherever the request came from
sendMessageToFirst(m, transportDomain, transportAddress) ==
    [msgVer |-> m.msgVer, errorStatus |-> m.errorStatus,
     errorIndex |-> m.errorIndex, varBinds |-> m.varBinds,
     transportDomain |-> udpDomainName \o <<0>>,
     transportAddress |-> transportAddress]

\* transportDispatcher.sendMessage: the message as the transport gets it,
\* with the transport domain and the address it goes to
sendMessage(m, transportDomain, transportAddress) ==
    [msgVer |-> m.msgVer, errorStatus |-> m.errorStatus,
     errorIndex |-> m.errorIndex, varBinds |-> m.varBinds,
     transportDomain |-> transportDomain,
     transportAddress |-> transportAddress]

\* lines 1233-1253: the candidate found in contexts takes the place of the
\* community name; mibInstrum is contexts[communityName].  request is what
\* probeContext was called with.
Found(request, candidates, i) ==
    IF i = 0
    THEN [request |-> request, contextName |-> "", mibInstrum |-> NoInstrum,
          candidate |-> 0, error |-> "none"]
    ELSE [request |-> request, contextName |-> candidates[i],
          mibInstrum |-> contexts[candidates[i]], candidate |-> i,
          error |-> "none"]

FoundIn(request, candidates) ==
    Found(request, candidates, FirstRegistered(candidates, DOMAIN contexts))

SelectedBy(request) ==
    FoundIn(request,
            probeContext(request[1], request[2], request[3], request[4]))

\* decoder.decode and the getters of the message and of its PDU
decode(wholeMsg) ==
    [msgVer |-> wholeMsg[1], communityName |-> wholeMsg[2],
     pdu |-> wholeMsg[3],
     varBinds |-> VarBindsOf(wholeMsg[4], IF wholeMsg[3] = "SetRequest"
                                          THEN SetValue ELSE Null),
     nonRepeaters |-> wholeMsg[5], maxRepetitions |-> wholeMsg[6]]

\* the part of commandResponderCbFun after the data file is looked for
Routed(msg, sel, transportDomain, transportAddress) ==
    IF sel.mibInstrum = NoInstrum \/ msg.pdu \notin Routable(msg.msgVer)
    THEN /\ req' = [pdu |-> "none", varBinds |-> msg.varBinds]
         /\ rsp' = NoRsp
         /\ sent' = NoMsg
         /\ bulk' = NoBulk
         /\ UNCHANGED <<textPos, isOpen, openedQueue, agentContexts,
                        recordContexts>>
    ELSE \E r \in { backendFun(msg, Handles(sel.mibInstrum), config) } :
         /\ req' = [pdu |-> msg.pdu, varBinds |-> msg.varBinds]
         /\ rsp' = [exc |-> r.exc, varBinds |-> r.varBinds,
                    calls |-> r.calls]
         /\ bulk' = r.bulk
         /\ textPos' = r.st.pos
         /\ isOpen' = r.st.open
         /\ openedQueue' = r.st.queue
         /\ agentContexts' = r.st.agent
         /\ recordContexts' = r.st.record
         /\ sent' = IF r.exc = "none"
                    THEN sendMessage(Response(msg, r.varBinds),
                                     transportDomain, transportAddress)
                    ELSE NoMsg

\* what the callback does with a datagram
Dispatched(transportDomain, transportAddress, wholeMsg) ==
    /\ config.v2cArch
    /\ phase.at = "running"
    /\ req = NoReq
    /\ \E msg \in { decode(wholeMsg) } :
        /\ reqMsg' = msg
        /\ IF msg.msgVer \notin protoModules
           THEN /\ req' = [pdu |-> "none", varBinds |-> msg.varBinds]
                /\ rsp' = NoRsp
                /\ sent' = NoMsg
                /\ bulk' = NoBulk
                /\ selected' = NoSelection
                /\ UNCHANGED <<textPos, isOpen, openedQueue, agentContexts,
                        recordContexts>>
           ELSE \E sel \in { SelectedBy(<<transportDomain, transportAddress,
                                           SELF_LABEL, msg.communityName>>) } :
                /\ selected' = sel
                /\ Routed(msg, sel, transportDomain, transportAddress)
    /\ UNCHANGED <<file, recordIndex, config, dataFiles, walk, pending,
                   probe, mainVars>>

commandResponderCbFun(transportDomain, transportAddress, wholeMsg) ==
    /\ Dispatched(transportDomain, transportAddress, wholeMsg)
    /\ UNCHANGED history

\* a datagram: the fields of the message a manager encoded
Msg(ver, community, pdu, oids, n, m) == <<ver, community, pdu, oids, n, m>>

Versions == { 0, 1, 3 }
Communities == { "public", "private" }
Pdus == { "GetRequest", "SetRequest", "GetNextRequest", "GetBulkRequest",
          "Response" }

\* the records of the files the pipeline serves
V2cTags == { Tag("4", "", FALSE), Tag("70", "", FALSE),
             Tag("4", "nodata", FALSE) }

MaxMsgLen == MaxReqLen + 1

\* the OIDs the messages ask for: records, and an OID above every record
MsgOids == { <<1>>, <<2>>, <<3>> }

MsgOidSeqs(n) == UNION { [1..k -> MsgOids] : k \in 1..n }

\* the files of the translation hold plain records: a value that is passed
\* on as it is and one that SNMPv1 cannot carry
InitV2c == InitFile({ Tag("4", "", FALSE), Tag("70", "", FALSE) })

NextV2c ==
    \/ \E ver \in Versions, community \in Communities, pdu \in Pdus,
          oids \in MsgOidSeqs(MaxMsgLen) :
          commandResponderCbFun(TransportDomain, TransportAddress,
                                Msg(ver, community, pdu, oids, 0, 1))
    \/ Return

SpecV2c == InitV2c /\ [][NextV2c]_vars

(***************************************************************************)
(* The SNMPv3 command responders.  The engine hands a request to the       *)
(* responder of its PDU type with a state reference; the responder's       *)
(* handleMgmtOperation asks probeHashContext for the context name and      *)
(* passes it to the method of the library it overrides, which calls the    *)
(* controller registered under that name, sends the response and releases  *)
(* the state reference.  An engine ID is the text of its hex digits; the   *)
(* context names are printable.                                            *)
(***************************************************************************)
\* snmpEngine.snmpEngineID, and the context engine ID of another engine
snmpEngineID == "80004fb805636c6f7564"
OtherEngineId == "0102"

\* OctetString.prettyPrint of an engine ID
prettyPrint(octets) == "0x" \o octets

\* lines 1359-1363 with the test lost: no candidate is hashed
HashedNever(candidates) == candidates

\* lines 1359-1363: a candidate of more than 32 bytes is looked up by its
\* digest
Hashed(candidates) ==
    [i \in DOMAIN candidates |->
        IF Len(candidates[i]) > 32 THEN md5(candidates[i]) ELSE candidates[i]]

\* line 1390
IsController(mibInstrum) == mibInstrum \in DataFiles \cup { IndexInstrum }

\* lines 1365-1395: getMibInstrum raises PySnmpError for a name that is not
\* registered; in the loop the next candidate is tried, after the loop the
\* error leaves probeHashContext
FoundHashed(request, probed, i) ==
    IF i # 0
    THEN [request |-> request, contextName |-> probed[i],
          mibInstrum |-> contextNames[probed[i]], candidate |-> i,
          error |-> IF IsController(contextNames[probed[i]]) THEN "none"
                    ELSE "NoDataNotification"]
    ELSE IF request[4] \in DOMAIN contextNames
    THEN [request |-> request, contextName |-> request[4],
          mibInstrum |-> contextNames[request[4]], candidate |-> 0,
          error |-> IF IsController(contextNames[request[4]]) THEN "none"
                    ELSE "NoDataNotification"]
    ELSE [request |-> request, contextName |-> request[4],
          mibInstrum |-> NoInstrum, candidate |-> 0, error |-> "PySnmpError"]

FoundAmong(request, probed) ==
    FoundHashed(request, probed, FirstRegistered(probed, DOMAIN contextNames))

probeHashContext(transportDomain, transportAddress, contextEngineId, contextName) ==
    FoundAmong(<<transportDomain, transportAddress, contextEngineId,
                 contextName>>,
               Hashed(probeContext(transportDomain, transportAddress,
                                   IF contextEngineId = snmpEngineID
                                   THEN SELF_LABEL
                                   ELSE prettyPrint(contextEngineId),
                                   contextName)))

\* the state reference of the request being handled
stateReference == 1

\* the responder that holds on to the state when NoDataNotification is
\* raised
ReleasedUnlessNoData(exc) == exc \in { "none", "PySnmpError" }

\* how handleMgmtOperation ends and whether the state reference is released:
\* by the library after the response is sent ("none"), by the responder on
\* NoDataNotification (lines 1407-1408), by the library's processPdu on a
\* PySnmpError; a lookup that does not end releases nothing
Released(exc) ==
    exc \in { "none", "nodata", "NoDataNotification", "PySnmpError" }

\* the response PDU the library sends
ResponseV3(varBinds) ==
    [msgVer |-> 3, errorStatus |-> 0, errorIndex |-> 0, varBinds |-> varBinds]

\* the management operation of the library on the selected controller
MgmtOperation(pdu, varBinds, sel) ==
    IF sel.error # "none"
    THEN /\ rsp' = NoRsp
         /\ sent' = NoMsg
         /\ pending' = IF Released(sel.error) THEN pending \ { stateReference }
                       ELSE pending \cup { stateReference }
         /\ UNCHANGED <<textPos, isOpen, openedQueue, agentContexts,
                        recordContexts>>
    ELSE \E r \in { Call(Handles(sel.mibInstrum), varBinds,
                         pdu = "GetNextRequest", pdu = "SetRequest") } :
         /\ rsp' = [exc |-> r.exc, varBinds |-> r.varBinds,
                    calls |-> r.calls]
         /\ textPos' = r.st.pos
         /\ isOpen' = r.st.open
         /\ openedQueue' = r.st.queue
         /\ agentContexts' = r.st.agent
         /\ recordContexts' = r.st.record
         /\ sent' = IF r.exc = "none" THEN ResponseV3(r.varBinds) ELSE NoMsg
         /\ pending' = IF Released(r.exc) THEN pending \ { stateReference }
                       ELSE pending \cup { stateReference }

\* what the responder of the PDU type does with a request
Handled(pdu, transportDomain, transportAddress, contextEngineId, contextName, oids) ==
    /\ ~config.v2cArch
    /\ phase.at = "running"
    /\ req = NoReq
    /\ \E varBinds \in { VarBindsOf(oids, IF pdu = "SetRequest"
                                          THEN SetValue ELSE Null) } :
       \E sel \in { probeHashContext(transportDomain, transportAddress,
                                     contextEngineId, contextName) } :
        /\ req' = [pdu |-> pdu, varBinds |-> varBinds]
        /\ reqMsg' = [msgVer |-> 3, communityName |-> contextName,
                      pdu |-> pdu, varBinds |-> varBinds,
                      nonRepeaters |-> 0, maxRepetitions |-> 0]
        /\ selected' = sel
        /\ MgmtOperation(pdu, varBinds, sel)
    /\ UNCHANGED <<file, recordIndex, config, dataFiles, walk, bulk, probe,
                   mainVars>>

\* GetCommandResponder, SetCommandResponder and NextCommandResponder
handleMgmtOperation(pdu, transportDomain, transportAddress, contextEngineId, contextName, oids) ==
    /\ Handled(pdu, transportDomain, transportAddress, contextEngineId,
               contextName, oids)
    /\ UNCHANGED history

(***************************************************************************)
(* The selection of the data file, for every data directory of up to       *)
(* MaxIdents data files, with two UDPv4 endpoints and                      *)
(* --transport-id-offset=0, in either architecture.                        *)
(***************************************************************************)
MaxIdents == 3
NumEndpoints == 2

\* the data files hold the record 1|4|A1
SelectFile == <<Rec(<<1>>, Tag("4", "", FALSE))>>

\* the community and context names of the requests: identifiers, the
\* digests of identifiers, and a name of no data file
SelectNames == { "foo", "", LongName, "bar" }
SelectDigests == { md5("foo"), md5(LongName) }

InitSelect ==
    /\ file = SelectFile
    /\ dataFiles \in { ids \in SUBSET { Idents[k] : k \in DOMAIN Idents } :
                          Cardinality(ids) <= MaxIdents }
    /\ Started
    /\ config \in { [DefaultConfig EXCEPT !.v2cArch = a] : a \in BOOLEAN }
    /\ walk = NoWalk

NextSelect ==
    \/ \E k \in 0..(NumEndpoints - 1), community \in SelectNames :
          commandResponderCbFun(EndpointDomain(udpDomainName, k, 0),
                                TransportAddress,
                                Msg(1, community, "GetRequest", <<<<1>>>>, 0, 0))
    \/ \E k \in 0..(NumEndpoints - 1),
          contextEngineId \in { snmpEngineID, OtherEngineId },
          contextName \in SelectNames \cup SelectDigests :
          handleMgmtOperation("GetRequest", EndpointDomain(udpDomainName, k, 0),
                              TransportAddress, contextEngineId, contextName,
                              <<<<1>>>>)
    \/ Return

SpecSelect == InitSelect /\ [][NextSelect]_vars

(***************************************************************************)
(* GETBULK over SNMPv2c, for every --max-varbinds up to MaxVarBindsOpt and *)
(* under both meanings the interpreter gives to "/".                       *)
(***************************************************************************)
MaxVarBindsOpt == 3
MaxNonRepeaters == 2
MaxRepetitions == 3

BulkTags == { Tag("4", "", FALSE), Tag("70", "", FALSE) }

InitBulk ==
    /\ InitStore(BulkTags)
    /\ config \in [maxVarBinds : 1..MaxVarBindsOpt, trueDivision : BOOLEAN,
                   maxQueueEntries : { maxQueueEntries }, v2cArch : { TRUE }]
    /\ walk = NoWalk

\* the OIDs a GETBULK starts from: one with records above it, and one above
\* every record
BulkOidSeqs == UNION { [1..k -> { <<1>>, <<3>> }] : k \in 1..MaxMsgLen }

NextBulk ==
    \/ \E oids \in BulkOidSeqs, n \in 0..MaxNonRepeaters,
          m \in 0..MaxRepetitions :
          commandResponderCbFun(TransportDomain, TransportAddress,
                                Msg(1, "public", "GetBulkRequest", oids, n, m))
    \/ Return

SpecBulk == InitBulk /\ [][NextBulk]_vars

(***************************************************************************)
(* Requests that a variation module ends with NoDataNotification, in       *)
(* either architecture: the records are plain ones and records of a        *)
(* module that raises NoDataNotification; history records the requests     *)
(* that were dropped.                                                      *)
(***************************************************************************)
MaxDrops == 1

DropTags == { Tag("4", "", FALSE), Tag("4", "nodata", FALSE) }
DropPdus == { "GetRequest", "GetNextRequest", "SetRequest" }

\* a request that ended with NoDataNotification is recorded with the number
\* of records that were evaluated for it
Dropping ==
    history' = IF rsp'.exc = "nodata" /\ Len(history) < MaxDrops
               THEN Append(history, <<"Dropped", Len(rsp'.calls)>>)
               ELSE history

InitDrop ==
    /\ InitStore(DropTags)
    /\ config \in { [DefaultConfig EXCEPT !.v2cArch = a] : a \in BOOLEAN }
    /\ walk = NoWalk

NextDrop ==
    \/ \E pdu \in DropPdus, oids \in MsgOidSeqs(MaxMsgLen) :
          /\ Dispatched(TransportDomain, TransportAddress,
                        Msg(1, "public", pdu, oids, 0, 0))
          /\ Dropping
    \/ \E oids \in MsgOidSeqs(MaxMsgLen), m \in 1..MaxRepetitions :
          /\ Dispatched(TransportDomain, TransportAddress,
                        Msg(1, "public", "GetBulkRequest", oids, 0, m))
          /\ Dropping
    \/ \E pdu \in DropPdus, oids \in MsgOidSeqs(MaxMsgLen) :
          /\ Handled(pdu, TransportDomain, TransportAddress, snmpEngineID,
                     "public", oids)
          /\ Dropping
    \/ Return

SpecDrop == InitDrop /\ [][NextDrop]_vars

(***************************************************************************)
(* Requests of several variable bindings on one data file whose records    *)
(* are plain ones, records whose value does not decode under their tag,    *)
(* records of a module that raises an error, records that name a module    *)
(* that is not loaded, and records of a module that answers.               *)
(***************************************************************************)
MaxBatch == 3

BatchTags == { Tag("4", "", FALSE), Tag("2", "", FALSE), Tag("4", "err", FALSE),
               Tag("4", "absent", FALSE), Tag("4", "val", FALSE) }

\* the OIDs of the requests: the records' (a file lacks one of them at least)
BatchOids == RecOids

BatchOidSeqs == UNION { [1..k -> BatchOids] : k \in 1..MaxBatch }

InitBatch == InitFile(BatchTags)

NextBatch ==
    \/ \E oids \in BatchOidSeqs :
          \/ readVars(oids)
          \/ readNextVars(oids)
          \/ writeVars(oids)
    \/ Return

SpecBatch == InitBatch /\ [][NextBatch]_vars

(***************************************************************************)
(* SNMPv1 and SNMPv2c messages of every version and PDU type, of one       *)
(* variable binding each, arriving on two UDPv4 endpoints.                 *)
(***************************************************************************)
InitRoute == InitFile(V2cTags)

NextRoute ==
    \/ \E k \in 0..(NumEndpoints - 1), ver \in Versions,
          community \in Communities, pdu \in Pdus, oids \in MsgOidSeqs(1) :
          commandResponderCbFun(EndpointDomain(udpDomainName, k, 0),
                                TransportAddress,
                                Msg(ver, community, pdu, oids, 0, 1))
    \/ Return

SpecRoute == InitRoute /\ [][NextRoute]_vars

(***************************************************************************)
(* The open-file queue under lookups on several data files.  The process   *)
(* runs with a small DataFile.maxQueueEntries, so that the queue fills;    *)
(* history holds, in order, the lines 'Closing' and 'Opening' getHandles   *)
(* logs and one line for each request processVarBinds logs, each with the  *)
(* data file it is about.                                                  *)
(***************************************************************************)
MaxCap == 2
MaxLookups == 4

CacheTags == { Tag("4", "", FALSE) }

CacheOids == { <<1>> }

\* the lines of lines 333, 339 and 363 for a lookup on data file self
Logged(self) ==
    (IF self \in isOpen THEN <<>>
     ELSE (IF Len(openedQueue) > config.maxQueueEntries
           THEN << <<"Closing", Head(openedQueue)>> >>
           ELSE <<>>)
          \o << <<"Opening", self>> >>)
    \o << <<"Request", self>> >>

IsOpening(e) == e[1] = "Opening"
IsClosing(e) == e[1] = "Closing"
IsRequest(e) == e[1] = "Request"

InitCache ==
    /\ file \in Files(CacheTags)
    /\ dataFiles = { Idents[k] : k \in DataFiles }
    /\ Started
    /\ config \in { [DefaultConfig EXCEPT !.maxQueueEntries = k] :
                       k \in 1..MaxCap }
    /\ walk = NoWalk

\* readVars of the controller of data file self
readVarsOf(self, oids) ==
    /\ Len(SelectSeq(history, IsRequest)) < MaxLookups
    /\ BackendOf(self, "GetRequest", oids, Null, FALSE, FALSE)
    /\ history' = history \o Logged(self)

NextCache ==
    \/ \E self \in DataFiles, oid \in CacheOids : readVarsOf(self, <<oid>>)
    \/ Return

SpecCache == InitCache /\ [][NextCache]_vars

(***************************************************************************)
(* GETs of records that carry a variation module, on two data files that   *)
(* run with DataFile.maxQueueEntries = 0, so that a data file is closed    *)
(* when the other one is opened.  history holds one entry for each call of      *)
(* variate: the module, the data file, the record, the dictionaries the    *)
(* module was handed (each by its key and id), the value it returned, and  *)
(* whether the data file had to be opened for the call.                    *)
(***************************************************************************)
MaxVariates == 3

VariateTags == { Tag("4", "numeric", FALSE), Tag("4", "val", FALSE) }

VariateFiles == 1..2

InitVariate ==
    /\ file \in Files(VariateTags)
    /\ dataFiles = { Idents[k] : k \in VariateFiles }
    /\ Started
    /\ config = [DefaultConfig EXCEPT !.maxQueueEntries = 0]
    /\ walk = NoWalk

\* the entry of the call of evaluate on the record of line line
VariateEntry(self, line, varBinds, opened) ==
    IF file[line + 1].tag.mod = "" THEN <<>>
    ELSE << [module |-> file[line + 1].tag.mod,
             dataFile |-> self,
             oid |-> file[line + 1].oid,
             agentContext |->
                <<file[line + 1].tag.mod, self,
                  agentContexts'[<<file[line + 1].tag.mod, self>>].id>>,
             recordContext |->
                <<file[line + 1].tag.mod, self, file[line + 1].oid,
                  recordContexts'[<<file[line + 1].tag.mod, self,
                                    file[line + 1].oid>>].id>>,
             value |-> varBinds[1].val,
             opened |-> opened] >>

\* a GET of one OID on data file self
readVarsVariated(self, oid) ==
    /\ Len(history) < MaxVariates
    /\ BackendOf(self, "GetRequest", <<oid>>, Null, FALSE, FALSE)
    /\ history' = IF rsp'.calls = <<>> THEN history
                  ELSE history \o VariateEntry(self, rsp'.calls[1].line,
                                            rsp'.varBinds, self \notin isOpen)

NextVariate ==
    \/ \E self \in VariateFiles, oid \in RecOids : readVarsVariated(self, oid)
    \/ Return

SpecVariate == InitVariate /\ [][NextVariate]_vars

(***************************************************************************)
(* probeContext called with every combination of a transport, an address   *)
(* of that transport, a context engine ID ("" for none) and a context      *)
(* name.                                                                   *)
(***************************************************************************)
ProbeDomains ==
    { udpDomainName \o <<0>>, udpDomainName \o <<1>>, udp6DomainName \o <<0>> }

ProbeAddresses(transportDomain) ==
    IF IsPrefixOf(udpDomainName, transportDomain)
    THEN { <<<<"127.0.0.1">>, 1161>>, <<<<"192.0.2.7">>, 1161>> }
    ELSE { <<<<"", "", "1">>, 1161>>, <<<<"fe80", "", "1">>, 1161>> }

ProbeEngineIds == { "", SELF_LABEL, "0x0102" }

ProbeNames == { "", "public", "foo", ".", "..", LongName }

InitProbe ==
    /\ file = <<>>
    /\ dataFiles = {}
    /\ Started
    /\ config = DefaultConfig
    /\ walk = NoWalk

\* list(probeContext(...))
Probe(transportDomain, transportAddress, contextEngineId, contextName) ==
    /\ probe' = [args |-> <<transportDomain, transportAddress,
                            contextEngineId, contextName>>,
                 candidates |-> probeContext(transportDomain, transportAddress,
                                             contextEngineId, contextName)]
    /\ UNCHANGED <<file, recordIndex, config, dataFiles, textPos, isOpen,
                   openedQueue, req, rsp, sent, walk, bulk, reqMsg, selected,
                   pending, history, agentContexts, recordContexts, mainVars>>

NextProbe ==
    \E transportDomain \in ProbeDomains,
       contextEngineId \in ProbeEngineIds, contextName \in ProbeNames :
       \E transportAddress \in ProbeAddresses(transportDomain) :
          Probe(transportDomain, transportAddress, contextEngineId,
                contextName)

SpecProbe == InitProbe /\ [][NextProbe]_vars

(***************************************************************************)
(* main from its first line to the exit of the process.  The variation     *)
(* directory holds the five modules, the data directory two data files.    *)
(***************************************************************************)
\* the module files in the order os.listdir gives them
ModuleFiles == <<"val", "eom", "nodata", "err", "numeric">>

NotLoaded ==
    [m \in variationModules |->
        [loaded |-> FALSE, init |-> 0, initFailed |-> FALSE, shutdown |-> 0,
         failed |-> FALSE]]

\* what the requests work on
servingVars == <<file, config, dataFiles, textPos, isOpen, openedQueue, req,
                 rsp, sent, walk, bulk, reqMsg, selected, pending, history,
                 probe, agentContexts, recordContexts, startupVars>>

\* sys.exit(rc): the process is gone
Exited(rc, cause) == [At("exited", rc) EXCEPT !.cause = cause]

\* the next pass of the loop over the modules, or the step after the loop
AfterModule(after) ==
    IF phase.n + 1 < Len(ModuleFiles) THEN [phase EXCEPT !.n = @ + 1]
    ELSE after

\* configureManagedObjects of SNMP engine e is next
Configuring(e, transportIndex) ==
    [At("configuring", 0) EXCEPT !.engine = e,
                                 !.transportIndex = transportIndex]

\* lines 1025-1054: the file of a module is executed; ok tells whether it
\* ran through
loadModule(ok) ==
    /\ phase.at = "loading"
    /\ IF ok
       THEN /\ modules' = [modules EXCEPT
                              ![ModuleFiles[phase.n + 1]].loaded = TRUE]
            /\ phase' = AfterModule(At("initializing", 0))
       ELSE /\ phase' = Exited(1, "execution failure")
            /\ UNCHANGED modules
    /\ UNCHANGED <<servingVars, recordIndex, transportDispatcher>>

\* lines 1077-1102: init of a module is called when the module has the
\* three handlers; an exception of init is logged ('load FAILED') and the
\* module stays in variationModules
initModule(handlers, raises) ==
    /\ phase.at = "initializing"
    /\ IF handlers
       THEN /\ modules' = [modules EXCEPT
                              ![ModuleFiles[phase.n + 1]].init = @ + 1,
                              ![ModuleFiles[phase.n + 1]].initFailed = raises]
            /\ phase' = AfterModule(
                           Configuring(1, [t \in Families |->
                                             config.transportIdOffset]))
       ELSE /\ phase' = Exited(1, "missing handler")
            /\ UNCHANGED modules
    /\ UNCHANGED <<servingVars, recordIndex, transportDispatcher>>

IsEndpoint(opt) ==
    opt \in { "--agent-udpv4-endpoint", "--agent-udpv6-endpoint",
              "--agent-unix-endpoint" }

FamilyOf(opt) ==
    CASE opt = "--agent-udpv4-endpoint" -> "udpv4"
      [] opt = "--agent-udpv6-endpoint" -> "udpv6"
      [] OTHER -> "unix"

DomainNameOf(family) ==
    CASE family = "udpv4" -> udpDomainName
      [] family = "udpv6" -> udp6DomainName
      [] OTHER -> unixDomainName

\* lines 1568-1570 and 1765-1777: the endpoint options of each SNMP engine,
\* by their place in v3Args; an engine begins at --v3-engine-id
RECURSIVE EnginesFrom(_, _, _)
EnginesFrom(v3Args, i, engines) ==
    IF i > Len(v3Args) THEN engines
    ELSE IF v3Args[i] = "--v3-engine-id"
    THEN EnginesFrom(v3Args, i + 1, Append(engines, <<>>))
    ELSE EnginesFrom(v3Args, i + 1,
                     [engines EXCEPT ![Len(engines)] = Append(@, i)])

\* lines 1469-1477: with --v2c-arch every endpoint is the dispatcher's;
\* lines 1540-1541: else the options begin with an engine, ('--v3-engine-id',
\* 'auto') when they name none
Engines(v2cArch, v3Args) ==
    IF v2cArch
    THEN << SelectSeq([i \in 1..Len(v3Args) |-> i],
                      LAMBDA i : IsEndpoint(v3Args[i])) >>
    ELSE IF v3Args[1] = "--v3-engine-id"
    THEN EnginesFrom(v3Args, 1, <<>>)
    ELSE EnginesFrom(v3Args, 1, << <<>> >>)

\* the endpoints of a transport among the endpoints of an engine
OfFamily(v3Args, endpoints, family) ==
    SelectSeq(endpoints, LAMBDA i : FamilyOf(v3Args[i]) = family)

\* lines 1491-1496, 1701-1709: the loop over the endpoints of one transport
RECURSIVE registerTransport(_, _, _, _)
registerTransport(domainName, endpoints, transportIndex, engine) ==
    IF endpoints = <<>> THEN <<>>
    ELSE << Transport(domainName \o <<transportIndex>>, Head(endpoints),
                      engine) >>
         \o registerTransport(domainName, Tail(endpoints), transportIndex + 1,
                              engine)

\* lines 1490-1526, 1701-1746: the loops over the UDPv4, the UDPv6 and the
\* UNIX endpoints of an engine
Registered(v3Args, endpoints, transportIndex, engine) ==
    registerTransport(udpDomainName, OfFamily(v3Args, endpoints, "udpv4"),
                      transportIndex["udpv4"], engine)
    \o registerTransport(udp6DomainName, OfFamily(v3Args, endpoints, "udpv6"),
                         transportIndex["udpv6"], engine)
    \o registerTransport(unixDomainName, OfFamily(v3Args, endpoints, "unix"),
                         transportIndex["unix"], engine)

\* transportIndex that every engine starts from the offset again
AdvancedNever(v3Args, endpoints, transportIndex) == transportIndex

\* lines 1703, 1718, 1734: transportIndex after the endpoints of an engine
Advanced(v3Args, endpoints, transportIndex) ==
    [t \in Families |->
        transportIndex[t] + Len(OfFamily(v3Args, endpoints, t))]

\* lines 1140-1141: DataFile(...).indexText() of the next data file; ok
\* tells whether RecordIndex.create came back or raised
indexText(ok) ==
    /\ phase.at = "configuring"
    /\ phase.n < Cardinality(dataFiles)
    /\ IF ok
       THEN /\ recordIndex' = RecordIndexOf(file)
            /\ phase' = [phase EXCEPT !.n = @ + 1]
       ELSE /\ phase' = Exited(1, "SnmpsimError")
            /\ UNCHANGED recordIndex
    /\ UNCHANGED <<servingVars, modules, transportDispatcher>>

\* lines 1479-1526, 1691-1746: the endpoints of the engine are registered
\* with the dispatcher; then the next engine is configured or, after the
\* last, the dispatcher runs (1881-1884)
registerTransports ==
    /\ phase.at = "configuring"
    /\ phase.n = Cardinality(dataFiles)
    /\ \E endpoints \in { Engines(config.v2cArch, config.v3Args)[phase.engine] } :
        IF endpoints = <<>>
        THEN /\ phase' = Exited(1, "endpoint address(es) not specified")
             /\ UNCHANGED transportDispatcher
        ELSE /\ transportDispatcher' =
                  [transportDispatcher EXCEPT
                      !.transports = @ \o Registered(config.v3Args, endpoints,
                                                     phase.transportIndex,
                                                     phase.engine)]
             /\ phase' =
                  IF phase.engine < Len(Engines(config.v2cArch, config.v3Args))
                  THEN Configuring(phase.engine + 1,
                                   Advanced(config.v3Args, endpoints,
                                            phase.transportIndex))
                  ELSE Running
    /\ UNCHANGED <<servingVars, recordIndex, modules>>

\* the dispatcher loop is left with this exception
Stopping(cause) == [At("stopping", 0) EXCEPT !.cause = cause]

\* lines 1219-1229: a datagram that is no SNMP message; decodeMessageVersion
\* or decoder.decode raises, nothing in the callback catches it, and the
\* dispatcher raises it out of runDispatcher as PySnmpError('poll error')
Malformed ==
    /\ config.v2cArch
    /\ phase.at = "running"
    /\ req = NoReq
    /\ phase' = Stopping("PySnmpError")
    /\ UNCHANGED <<servingVars, recordIndex, modules, transportDispatcher>>

\* line 1885: the user interrupts the process
KeyboardInterrupt ==
    /\ phase.at = "running"
    /\ phase' = Stopping("KeyboardInterrupt")
    /\ UNCHANGED <<servingVars, recordIndex, modules, transportDispatcher>>

\* the shutdown loop with its try statement lost: an exception of shutdown
\* leaves main
shutdownModuleUnguarded(raises) ==
    /\ phase.at = "stopping"
    /\ phase.n < Len(ModuleFiles)
    /\ modules' = [modules EXCEPT ![ModuleFiles[phase.n + 1]].shutdown = @ + 1,
                                  ![ModuleFiles[phase.n + 1]].failed = raises]
    /\ phase' = IF raises THEN Exited(1, "Exception")
                ELSE [phase EXCEPT !.n = @ + 1]
    /\ UNCHANGED <<servingVars, recordIndex, transportDispatcher>>

\* lines 1892-1904: shutdown of the next module is called; an exception of
\* shutdown is logged
shutdownModule(raises) ==
    /\ phase.at = "stopping"
    /\ phase.n < Len(ModuleFiles)
    /\ modules' = [modules EXCEPT ![ModuleFiles[phase.n + 1]].shutdown = @ + 1,
                                  ![ModuleFiles[phase.n + 1]].failed = raises]
    /\ phase' = [phase EXCEPT !.n = @ + 1]
    /\ UNCHANGED <<servingVars, recordIndex, transportDispatcher>>

\* lines 1906-1910 and 1916-1930: the dispatcher is closed; main returns 0
\* after KeyboardInterrupt, any other exception goes on to the caller of
\* main, which exits with 1
closeDispatcher ==
    /\ phase.at = "stopping"
    /\ phase.n = Len(ModuleFiles)
    /\ transportDispatcher' = [transportDispatcher EXCEPT !.closed = TRUE]
    /\ phase' = Exited(IF phase.cause = "KeyboardInterrupt" THEN 0 ELSE 1,
                       phase.cause)
    /\ UNCHANGED <<servingVars, recordIndex, modules>>

\* the data files: a plain record, a record whose module raises and a
\* record of a module that answers
MainFile ==
    <<Rec(<<1>>, Tag("4", "", FALSE)), Rec(<<1, 1>>, Tag("4", "err", FALSE)),
      Rec(<<2>>, Tag("4", "val", FALSE))>>

InitMain ==
    /\ file = MainFile
    /\ dataFiles = { "public", "foo" }
    /\ recordIndex = <<>>
    /\ Quiet
    /\ locals = NoLocals
    /\ disk = NoDisk
    /\ config \in { [DefaultConfig EXCEPT !.v2cArch = a] : a \in BOOLEAN }
    /\ walk = NoWalk
    /\ phase = At("loading", 0)
    /\ modules = NotLoaded
    /\ transportDispatcher = NotListening

\* the modules whose init may raise: those the records of MainFile name
FaultyInits == { "val", "err" }

NextMain ==
    \/ \E ok \in BOOLEAN : loadModule(ok)
    \/ \E handlers \in BOOLEAN, raises \in BOOLEAN :
          /\ initModule(handlers, raises)
          /\ raises => ModuleFiles[phase.n + 1] \in FaultyInits
    \/ \E ok \in BOOLEAN : indexText(ok)
    \/ registerTransports
    \/ \E pdu \in DropPdus, oid \in RecOids, community \in Communities :
          commandResponderCbFun(TransportDomain, TransportAddress,
                                Msg(1, community, pdu, <<oid>>, 0, 0))
    \/ \E pdu \in DropPdus, oid \in RecOids, contextName \in Communities :
          handleMgmtOperation(pdu, TransportDomain, TransportAddress,
                              snmpEngineID, contextName, <<oid>>)
    \/ Return
    \/ Malformed
    \/ KeyboardInterrupt
    \/ \E raises \in BOOLEAN : shutdownModule(raises)
    \/ closeDispatcher

SpecMain == InitMain /\ [][NextMain]_vars

\* the finally clause of main runs to its end
SpecMainFair ==
    /\ SpecMain
    /\ WF_vars(\E raises \in BOOLEAN : shutdownModule(raises))
    /\ WF_vars(closeDispatcher)

(***************************************************************************)
(* The data files and the transports are configured for every choice of    *)
(* --transport-id-offset and of up to MaxOptions endpoint and engine       *)
(* options, in either architecture (--v2c-arch takes no --v3 option).      *)
(***************************************************************************)
MaxOptions == 4
MaxOffset == 1

EndpointOptions ==
    { "--agent-udpv4-endpoint", "--agent-udpv6-endpoint",
      "--agent-unix-endpoint" }

OptionSeqs(options) == UNION { [1..k -> options] : k \in 1..MaxOptions }

InitTransports ==
    /\ file = SelectFile
    /\ dataFiles = { "public" }
    /\ recordIndex = <<>>
    /\ Quiet
    /\ locals = NoLocals
    /\ disk = NoDisk
    /\ \E offset \in 0..MaxOffset :
        /\ \/ \E v3Args \in OptionSeqs(EndpointOptions) :
                 config = [DefaultConfig EXCEPT !.transportIdOffset = offset,
                                                !.v3Args = v3Args]
           \/ \E v3Args \in OptionSeqs(EndpointOptions
                                         \cup { "--v3-engine-id" }) :
                 config = [DefaultConfig EXCEPT !.v2cArch = FALSE,
                                                !.transportIdOffset = offset,
                                                !.v3Args = v3Args]
        /\ phase = Configuring(1, [t \in Families |-> offset])
    /\ walk = NoWalk
    /\ modules = Initialised
    /\ transportDispatcher = NotListening

NextTransports ==
    \/ \E ok \in BOOLEAN : indexText(ok)
    \/ registerTransports

SpecTransports == InitTransports /\ [][NextTransports]_vars

(***************************************************************************)
(* The SNMPv3 options.  main parses the command line into v3Args (lines    *)
(* 762-970) and then walks v3Args, configuring one SNMP engine at the end  *)
(* of every --v3-engine-id block (lines 1540-1877).  An option is          *)
(* <<name, value>>.  Here the endpoints are UDPv4 ones; the UDPv6 and the  *)
(* UNIX endpoints are kept in lists of their own in the same way.          *)
(***************************************************************************)
MaxV3Args == 5

None == "None"

V3Options ==
    { <<"--v3-engine-id", "010203">>, <<"--v3-context-engine-id", "0a0b">>,
      <<"--data-dir", "d">>, <<"--max-varbinds", 5>>, <<"--v3-user", "u">>,
      <<"--v3-auth-key", "authkey1">>,
      <<"--agent-udpv4-endpoint", "127.0.0.1:1161">> }

\* confdir.data as the package sets it
confdirData == <<"data">>

NamesOf(args) == { args[i][1] : i \in DOMAIN args }

\* lines 823-829 and 883-907: one option of the command line; --data-dir
\* and --max-varbinds are global until an engine has been named
ParsedOpt(opt, p) ==
    CASE opt[1] = "--data-dir" ->
            IF NamesOf(p.v3Args) \cap { "--v3-engine-id",
                                        "--v3-context-engine-id" } # {}
            THEN [p EXCEPT !.v3Args = Append(@, opt)]
            ELSE [p EXCEPT !.data = <<opt[2]>> \o @]
      [] opt[1] = "--max-varbinds" ->
            IF "--v3-engine-id" \in NamesOf(p.v3Args)
            THEN [p EXCEPT !.v3Args = Append(@, <<opt[1], Max(1, opt[2])>>)]
            ELSE [p EXCEPT !.maxVarBinds = Max(1, opt[2])]
      [] OTHER -> [p EXCEPT !.v3Args = Append(@, opt)]

\* for opt in opts (line 762)
RECURSIVE Parsed(_, _)
Parsed(opts, p) ==
    IF opts = <<>> THEN p ELSE Parsed(Tail(opts), ParsedOpt(Head(opts), p))

\* lines 932-970: main goes on when an option names an endpoint
HasEndpoint(v3Args) ==
    \E i \in DOMAIN v3Args : v3Args[i][1] = "--agent-udpv4-endpoint"

\* lines 1540-1543: the options the loop walks
Walked(v3Args) ==
    (IF v3Args # <<>> /\ v3Args[1][1] # "--v3-engine-id"
     THEN << <<"--v3-engine-id", "auto">> >> ELSE <<>>)
    \o v3Args \o << <<"end-of-options", "">> >>

NoDict == [k \in {} |-> None]

\* d[k] = v
SetItem(d, k, v) == [x \in DOMAIN d \cup { k } |-> IF x = k THEN v ELSE d[x]]

\* lines 1767-1780 with the users, their keys and their protocols left as
\* the last engine had them
NextEngineKeepsUsers(l, opt, maxVarBinds) ==
    [l EXCEPT !.snmpEngine = opt[2], !.v3EngineId = opt[2],
              !.v3ContextEngineIds = <<>>, !.dataDirs = <<>>,
              !.localMaxVarBinds = maxVarBinds,
              !.agentUDPv4Endpoints = <<>>]

\* lines 1767-1786: prepare for next engine ID configuration
NextEngine(l, opt, maxVarBinds) ==
    [snmpEngine |-> opt[2], v3EngineId |-> opt[2],
     v3ContextEngineIds |-> <<>>, dataDirs |-> <<>>,
     localMaxVarBinds |-> maxVarBinds, v3Users |-> <<>>,
     v3AuthKeys |-> NoDict, v3AuthProtos |-> NoDict, v3PrivKeys |-> NoDict,
     v3PrivProtos |-> NoDict, agentUDPv4Endpoints |-> <<>>]

\* line 1560: snmpEngine = None; the loop binds the other names at its first
\* pass, which is a --v3-engine-id
BeforeEngines ==
    [snmpEngine |-> None, v3EngineId |-> None, v3ContextEngineIds |-> <<>>,
     dataDirs |-> <<>>, localMaxVarBinds |-> 0, v3Users |-> <<>>,
     v3AuthKeys |-> NoDict, v3AuthProtos |-> NoDict, v3PrivKeys |-> NoDict,
     v3PrivProtos |-> NoDict, agentUDPv4Endpoints |-> <<>>]

\* lines 1613-1618: the user of an engine that names none
WithSimulator(l) ==
    IF l.v3Users # <<>> THEN l
    ELSE [l EXCEPT !.v3Users = <<"simulator">>,
                   !.v3AuthKeys = SetItem(@, "simulator", "auctoritas"),
                   !.v3AuthProtos = SetItem(@, "simulator", "MD5"),
                   !.v3PrivKeys = SetItem(@, "simulator", "privatus"),
                   !.v3PrivProtos = SetItem(@, "simulator", "DES")]

\* lines 1621-1647: the defaults of a key and its protocol for v3User; rc
\* is 1 when the protocol has no key
Defaulted(keys, protos, v3User, proto) ==
    IF v3User \in DOMAIN keys
    THEN [rc |-> 0, keys |-> keys,
          protos |-> IF v3User \in DOMAIN protos THEN protos
                     ELSE SetItem(protos, v3User, proto)]
    ELSE IF v3User \in DOMAIN protos
    THEN [rc |-> 1, keys |-> keys, protos |-> protos]
    ELSE [rc |-> 0, keys |-> SetItem(keys, v3User, None),
          protos |-> SetItem(protos, v3User, "NONE")]

\* lines 1620-1669: for v3User in v3Users; users are the users added to the
\* engine so far
RECURSIVE addV3Users(_, _, _)
addV3Users(v3Users, l, users) ==
    IF v3Users = <<>> THEN [rc |-> 0, cause |-> "none", users |-> users]
    ELSE LET v3User == Head(v3Users)
             auth == Defaulted(l.v3AuthKeys, l.v3AuthProtos, v3User, "MD5")
             priv == Defaulted(l.v3PrivKeys, l.v3PrivProtos, v3User, "DES")
         IN  IF auth.rc # 0
             THEN [rc |-> 1, users |-> users,
                   cause |-> "auth protocol configured without key"]
             ELSE IF priv.rc # 0
             THEN [rc |-> 1, users |-> users,
                   cause |-> "privacy protocol configured without key"]
             ELSE IF auth.protos[v3User] = "NONE"
                     /\ priv.protos[v3User] # "NONE"
             THEN [rc |-> 1, users |-> users,
                   cause |-> "privacy impossible without authentication"]
             ELSE addV3Users(Tail(v3Users),
                             [l EXCEPT !.v3AuthKeys = auth.keys,
                                       !.v3AuthProtos = auth.protos,
                                       !.v3PrivKeys = priv.keys,
                                       !.v3PrivProtos = priv.protos],
                             Append(users,
                                    [v3User |-> v3User,
                                     authProto |-> auth.protos[v3User],
                                     authKey |-> auth.keys[v3User],
                                     privProto |-> priv.protos[v3User],
                                     privKey |-> priv.keys[v3User]]))

\* lines 1580-1604: the SNMP contexts of the engine and the data
\* directories each is configured from
ContextsOfEngine(l, data) ==
    LET ids == IF l.v3ContextEngineIds = <<>> THEN << <<None, <<>>>> >>
               ELSE l.v3ContextEngineIds
    IN  [i \in DOMAIN ids |->
            [contextEngineId |-> ids[i][1],
             dataDirs |-> IF ids[i][2] # <<>> THEN ids[i][2]
                          ELSE IF l.dataDirs # <<>> THEN l.dataDirs
                          ELSE data]]

\* lines 1572-1755: the engine of the block that ends here
ConfiguredEngine(l, data) ==
    LET added == addV3Users(WithSimulator(l).v3Users, WithSimulator(l), <<>>)
    IN  IF added.rc # 0 THEN [rc |-> 1, cause |-> added.cause]
        ELSE IF l.agentUDPv4Endpoints = <<>>
        THEN [rc |-> 1, cause |-> "endpoint address(es) not specified"]
        ELSE [rc |-> 0, cause |-> "none",
              engine |-> [snmpEngineID |-> l.v3EngineId,
                          contexts |-> ContextsOfEngine(l, data),
                          users |-> added.users,
                          maxVarBinds |-> l.localMaxVarBinds,
                          endpoints |-> l.agentUDPv4Endpoints]]

\* lines 1812-1868: a key or a protocol of the last user named; rc is 1
\* when no user was named or the user has one
OfLastUser(l, d, value) ==
    IF l.v3Users = <<>>
    THEN [rc |-> 1, cause |-> "--v3-user should precede", d |-> d]
    ELSE IF l.v3Users[Len(l.v3Users)] \in DOMAIN d
    THEN [rc |-> 1, cause |-> "repetitive option for user", d |-> d]
    ELSE [rc |-> 0, cause |-> "none",
          d |-> SetItem(d, l.v3Users[Len(l.v3Users)], value)]

\* lines 1796-1877: an option inside a block; rc is 1 when main returns 1 at
\* it
WithOption(l, opt) ==
    CASE opt[1] = "--v3-context-engine-id" ->
            [rc |-> 0, cause |-> "none",
             l |-> [l EXCEPT !.v3ContextEngineIds =
                                Append(@, <<opt[2], <<>>>>)]]
      [] opt[1] = "--data-dir" ->
            [rc |-> 0, cause |-> "none",
             l |-> IF l.v3ContextEngineIds # <<>>
                   THEN [l EXCEPT
                           !.v3ContextEngineIds[Len(l.v3ContextEngineIds)][2] =
                              Append(@, opt[2])]
                   ELSE [l EXCEPT !.dataDirs = Append(@, opt[2])]]
      [] opt[1] = "--max-varbinds" ->
            [rc |-> 0, cause |-> "none",
             l |-> [l EXCEPT !.localMaxVarBinds = opt[2]]]
      [] opt[1] = "--v3-user" ->
            [rc |-> 0, cause |-> "none",
             l |-> [l EXCEPT !.v3Users = Append(@, opt[2])]]
      [] opt[1] = "--v3-auth-key" ->
            LET set == OfLastUser(l, l.v3AuthKeys, opt[2])
            IN  [rc |-> set.rc, cause |-> set.cause,
                 l |-> [l EXCEPT !.v3AuthKeys = set.d]]
      [] opt[1] = "--v3-auth-proto" ->
            LET set == OfLastUser(l, l.v3AuthProtos, opt[2])
            IN  [rc |-> set.rc, cause |-> set.cause,
                 l |-> [l EXCEPT !.v3AuthProtos = set.d]]
      [] opt[1] = "--v3-priv-key" ->
            LET set == OfLastUser(l, l.v3PrivKeys, opt[2])
            IN  [rc |-> set.rc, cause |-> set.cause,
                 l |-> [l EXCEPT !.v3PrivKeys = set.d]]
      [] opt[1] = "--v3-priv-proto" ->
            LET set == OfLastUser(l, l.v3PrivProtos, opt[2])
            IN  [rc |-> set.rc, cause |-> set.cause,
                 l |-> [l EXCEPT !.v3PrivProtos = set.d]]
      [] OTHER ->
            [rc |-> 0, cause |-> "none",
             l |-> [l EXCEPT !.agentUDPv4Endpoints = Append(@, opt[2])]]

\* one pass of 'for opt in v3Args' (line 1568)
configureEngine ==
    /\ phase.at = "engines"
    /\ \E opt \in { Walked(config.v3Args)[phase.n + 1] } :
        IF opt[1] \in { "--v3-engine-id", "end-of-options" }
        THEN \E done \in { IF locals.snmpEngine # None
                           THEN ConfiguredEngine(locals, config.data)
                           ELSE [rc |-> 0, cause |-> "none"] } :
                IF done.rc # 0
                THEN /\ phase' = Exited(1, done.cause)
                     /\ UNCHANGED <<snmpEngines, locals>>
                ELSE /\ snmpEngines' = IF locals.snmpEngine # None
                                       THEN Append(snmpEngines, done.engine)
                                       ELSE snmpEngines
                     /\ IF opt[1] = "end-of-options"
                        THEN /\ phase' = Running
                             /\ UNCHANGED locals
                        ELSE /\ phase' = [phase EXCEPT !.n = @ + 1]
                             /\ locals' = NextEngine(locals, opt,
                                                     config.maxVarBinds)
        ELSE \E set \in { WithOption(locals, opt) } :
                IF set.rc # 0
                THEN /\ phase' = Exited(1, set.cause)
                     /\ UNCHANGED <<snmpEngines, locals>>
                ELSE /\ phase' = [phase EXCEPT !.n = @ + 1]
                     /\ locals' = set.l
                     /\ UNCHANGED snmpEngines
    /\ UNCHANGED <<file, recordIndex, config, dataFiles, textPos, isOpen,
                   openedQueue, req, rsp, sent, walk, bulk, reqMsg, selected,
                   pending, history, probe, agentContexts, recordContexts,
                   modules, transportDispatcher, disk>>

V3ArgSeqs == UNION { [1..k -> V3Options] : k \in 1..MaxV3Args }

InitEngines ==
    /\ file = SelectFile
    /\ dataFiles = { "public" }
    /\ recordIndex = <<>>
    /\ Quiet
    /\ \E opts \in V3ArgSeqs :
          \E p \in { Parsed(opts, [v3Args |-> <<>>,
                                   maxVarBinds |-> DefaultMaxVarBinds,
                                   data |-> confdirData]) } :
             /\ HasEndpoint(p.v3Args)
             /\ config = [maxVarBinds |-> p.maxVarBinds, trueDivision |-> TRUE,
                          maxQueueEntries |-> maxQueueEntries,
                          v2cArch |-> FALSE, transportIdOffset |-> 0,
                          v3Args |-> p.v3Args, data |-> p.data]
    /\ walk = NoWalk
    /\ phase = At("engines", 0)
    /\ modules = Initialised
    /\ transportDispatcher = NotListening
    /\ locals = BeforeEngines
    /\ disk = NoDisk

NextEngines == configureEngine

SpecEngines == InitEngines /\ [][NextEngines]_vars

(***************************************************************************)
(* The index file of a text file.  DataFile.indexText hands its two flags  *)
(* to RecordIndex.create (snmpsim.record.search.database), which builds    *)
(* the index file, or opens the one it finds.                              *)
(***************************************************************************)
\* the clock of the file system goes up to MaxClock
MaxClock == 2

\* the text files that are indexed
IndexTags == { Tag("4", "", FALSE) }
IndexTexts == Files(IndexTags)

\* what the index stores of the text it was built from
Fingerprint(f) == [k \in 1..Len(f) |-> f[k].oid]

\* no index file
Missing == [exists |-> FALSE, mtime |-> 0, fingerprint |-> <<>>, entries |-> <<>>]

\* RecordIndex.build at the time now
Built(f, now) == [exists |-> TRUE, mtime |-> now, fingerprint |-> Fingerprint(f), entries |-> RecordIndexOf(f)]

\* the index is older than the text, or was built from another text
IsStale(index, f, textTime) ==
    \/ index.mtime < textTime
    \/ index.fingerprint # Fingerprint(f)

\* the full scan of validate: a record the lookup does not find at its
\* offset, or OIDs that do not ascend
Mismatch(entries, f) ==
    \/ ~IsAscending(f)
    \/ \E k \in 1..Len(f) :
          \/ ~IndexHasKey(entries, f[k].oid)
          \/ IndexLookup(entries, f[k].oid).offset # k - 1

\* RecordIndex.create: the index file it leaves, and what it found and did
create(index, f, textTime, now, forceBuild, validate) ==
    LET missing == ~index.exists
        stale == index.exists /\ IsStale(index, f, textTime)
        first == forceBuild \/ missing \/ stale
        opened == IF first THEN Built(f, now) ELSE index
        mismatch == Mismatch(opened.entries, f)
        again == validate /\ mismatch
    IN  [index |-> IF again THEN Built(f, now) ELSE opened,
         missing |-> missing, stale |-> stale, mismatch |-> mismatch,
         builds |-> (IF first THEN 1 ELSE 0) + (IF again THEN 1 ELSE 0)]

\* no indexing yet, or the text was written after it
NoCall == [called |-> FALSE, forceIndexBuild |-> FALSE, validateData |-> FALSE, missing |-> FALSE, stale |-> FALSE, mismatch |-> FALSE, builds |-> 0]

\* DataFile.indexText with the force flag lost
indexTextNeverForced(index, f, textTime, now, forceIndexBuild, validateData) == create(index, f, textTime, now, FALSE, validateData)

\* DataFile.indexText (323-325)
IndexedText(index, f, textTime, now, forceIndexBuild, validateData) == create(index, f, textTime, now, forceIndexBuild, validateData)

\* lines 1139-1140: DataFile(...).indexText(forceIndexBuild, validateData)
indexDataFile(forceIndexBuild, validateData) ==
    /\ \E r \in { IndexedText(disk.index, file, disk.textTime, disk.clock,
                              forceIndexBuild, validateData) } :
          /\ disk' = [disk EXCEPT
                         !.index = r.index,
                         !.call = [called |-> TRUE,
                                   forceIndexBuild |-> forceIndexBuild,
                                   validateData |-> validateData,
                                   missing |-> r.missing, stale |-> r.stale,
                                   mismatch |-> r.mismatch,
                                   builds |-> r.builds]]
          /\ recordIndex' = r.index.entries
    /\ UNCHANGED <<file, config, dataFiles, textPos, isOpen, openedQueue, req,
                   rsp, sent, walk, bulk, reqMsg, selected, pending, history,
                   probe, agentContexts, recordContexts, phase, modules,
                   transportDispatcher, snmpEngines, locals>>

\* the text file is edited between two runs of the simulator
writeText(g) ==
    /\ disk.clock < MaxClock
    /\ file' = g
    /\ disk' = [disk EXCEPT !.clock = @ + 1, !.textTime = disk.clock + 1,
                            !.call = NoCall]
    /\ UNCHANGED <<recordIndex, config, dataFiles, textPos, isOpen,
                   openedQueue, req, rsp, sent, walk, bulk, reqMsg, selected,
                   pending, history, probe, agentContexts, recordContexts,
                   phase, modules, transportDispatcher, snmpEngines, locals>>

\* the index files the simulator may find: none, or one built at some time
\* from some text, with the fingerprint of that text or of the text it now
\* finds
IndexFiles(f) ==
    { Missing } \cup
    UNION { { [exists |-> TRUE, mtime |-> t, fingerprint |-> Fingerprint(g),
               entries |-> RecordIndexOf(h)] : t \in 0..1, g \in { f, h } } :
            h \in IndexTexts }

InitIndex ==
    /\ file \in IndexTexts
    /\ dataFiles = { "public" }
    /\ config = DefaultConfig
    /\ recordIndex = <<>>
    /\ Quiet
    /\ locals = NoLocals
    /\ walk = NoWalk
    /\ phase = At("configuring", 0)
    /\ modules = Initialised
    /\ transportDispatcher = NotListening
    /\ \E t \in 0..1, index \in IndexFiles(file) :
          disk = [clock |-> 1, textTime |-> t, index |-> index, call |-> NoCall]

NextIndex ==
    \/ \E forceIndexBuild \in BOOLEAN, validateData \in BOOLEAN :
          indexDataFile(forceIndexBuild, validateData)
    \/ \E g \in IndexTexts : writeText(g)

SpecIndex == InitIndex /\ [][NextIndex]_vars

(***************************************************************************)
(* The data files of a data directory.  A path is split at os.path.sep     *)
(* into its components, and a component is its characters one by one, so   *)
(* that what getDataFiles cuts off a name is cut off here.                 *)
(***************************************************************************)
\* SELF_LABEL, character by character
SelfName == <<"s", "e", "l", "f">>
\* os.path.extsep
extsep == "."
\* the keys of RECORD_TYPES: SnmprecRecord.ext, DumpRecord.ext
SnmprecExt == <<"s", "n", "m", "p", "r", "e", "c">>
DumpExt == <<"d", "u", "m", "p">>
RECORD_TYPES == { SnmprecExt, DumpExt }

\* str.endswith
EndsWith(name, suffix) ==
    /\ Len(suffix) <= Len(name)
    /\ SubSeq(name, Len(name) - Len(suffix) + 1, Len(name)) = suffix

\* text[:-n] for n > 0
CutOff(text, n) == SubSeq(text, 1, Max(0, Len(text) - n))

\* os.path.sep.join(parts), on the characters
RECURSIVE JoinChars(_, _)
JoinChars(parts, sep) ==
    IF parts = <<>> THEN <<>>
    ELSE IF Len(parts) = 1 THEN parts[1]
    ELSE parts[1] \o <<sep>> \o JoinChars(Tail(parts), sep)

\* text.replace(sep, '/')
Replaced(text, sep) == [i \in 1..Len(text) |-> IF text[i] = sep THEN "/" ELSE text[i]]

\* os.path.join(tgtDir, dFile).split(os.path.sep) on the components of
\* tgtDir: no separator is added after a directory that ends with one
JoinSplit(tgtDir, dFile) ==
    IF tgtDir[Len(tgtDir)] = <<>>
    THEN SubSeq(tgtDir, 1, Len(tgtDir) - 1) \o <<dFile>>
    ELSE tgtDir \o <<dFile>>

\* nothing found, no exception
NoDataFiles == [exc |-> "none", dirContent |-> <<>>]

\* lines 541-563: the identifier of the regular file fullPath, which
\* os.listdir found; topLen is the number of components of the directory
\* main was given
IdentOf(fullPath, topLen, sep) ==
    LET dFile == fullPath[Len(fullPath)]
        relPath == SubSeq(fullPath, topLen + 1, Len(fullPath))
    IN  IF \A dExt \in RECORD_TYPES : ~EndsWith(dFile, dExt)
        THEN NoDataFiles
        ELSE IF relPath = <<>>
        THEN [exc |-> "IndexError", dirContent |-> <<>>]
        ELSE LET dExt == CHOOSE e \in RECORD_TYPES : EndsWith(dFile, e)
                 stripped == IF relPath[1] = SelfName THEN Tail(relPath)
                             ELSE relPath
                 named == IF /\ Len(stripped) = 1
                             /\ stripped[1] = SelfName \o <<extsep>> \o dExt
                          THEN <<SubSeq(stripped[1], 5, Len(stripped[1]))>>
                          ELSE stripped
             IN  IF named = <<>>
                 THEN [exc |-> "TypeError", dirContent |-> <<>>]
                 ELSE [exc |-> "none",
                       dirContent |->
                          <<Replaced(CutOff(JoinChars(named, sep),
                                            Len(dExt) + 1), sep)>>]

\* getDataFiles with the separators at the end of tgtDir not counted
RECURSIVE getDataFilesTrimmed(_, _, _, _)
getDataFilesTrimmed(tgtDir, below, topLen, sep) ==
    LET top == IF topLen # 0 THEN topLen
               ELSE Len(SelectSeq(tgtDir, LAMBDA c : c # <<>>))
        fullPath == JoinSplit(tgtDir, below[1])
    IN  IF Len(below) > 1
        THEN getDataFilesTrimmed(fullPath, Tail(below), top, sep)
        ELSE IdentOf(fullPath, top, sep)

\* getDataFiles(tgtDir, topLen) for a directory tree that holds one regular
\* file, below[Len(below)], in the directories below[1], below[2], ... of
\* tgtDir; topLen = 0 stands for None
RECURSIVE getDataFiles(_, _, _, _)
getDataFiles(tgtDir, below, topLen, sep) ==
    LET top == IF topLen # 0 THEN topLen ELSE Len(tgtDir)
        fullPath == JoinSplit(tgtDir, below[1])
    IN  IF Len(below) > 1
        THEN getDataFiles(fullPath, Tail(below), top, sep)
        ELSE IdentOf(fullPath, top, sep)

\* lines 1113-1126: configureManagedObjects scans the data directory; an
\* exception of getDataFiles ends the process (1916-1929)
scanDataDir ==
    /\ phase.at = "configuring"
    /\ phase.n = 0
    /\ \E r \in { getDataFiles(disk.tgtDir, disk.below, 0, disk.sep) } :
          IF r.exc # "none"
          THEN /\ phase' = Exited(1, r.exc)
               /\ UNCHANGED dataFiles
          ELSE /\ phase' = [phase EXCEPT !.n = 1]
               /\ dataFiles' = { r.dirContent[k] : k \in 1..Len(r.dirContent) }
    /\ UNCHANGED <<file, recordIndex, config, textPos, isOpen, openedQueue,
                   req, rsp, sent, walk, bulk, reqMsg, selected, pending,
                   history, probe, agentContexts, recordContexts, modules,
                   transportDispatcher, startupVars>>

\* the names of directories and files: a, self; with an extension of
\* RECORD_TYPES after a dot, with its letters without the dot, with another
\* extension
AName == <<"a">>
DirNames == { <<>>, <<AName>>, <<SelfName>>, <<AName, SelfName>>,
              <<SelfName, AName>>, <<SelfName, SelfName>> }
FileNames ==
    UNION { { SelfName \o <<extsep>> \o e, AName \o <<extsep>> \o e,
              AName \o e } : e \in RECORD_TYPES }
    \cup { AName \o <<extsep>> \o <<"t", "x", "t">>, SelfName }

\* --data-dir=d and --data-dir=d/ (with the separator of the platform)
DataDirs == { << <<"d">> >>, << <<"d">>, <<>> >> }

InitDataFiles ==
    /\ file = <<>>
    /\ dataFiles = {}
    /\ config = DefaultConfig
    /\ recordIndex = <<>>
    /\ Quiet
    /\ locals = NoLocals
    /\ walk = NoWalk
    /\ phase = At("configuring", 0)
    /\ modules = Initialised
    /\ transportDispatcher = NotListening
    /\ \E tgtDir \in DataDirs, dirs \in DirNames, dFile \in FileNames,
          sep \in { "/", "\\" } :
          disk = [tgtDir |-> tgtDir, below |-> dirs \o <<dFile>>, sep |-> sep]

NextDataFiles == scanDataDir

SpecDataFiles == InitDataFiles /\ [][NextDataFiles]_vars

(***************************************************************************)
(* The queue of the open data files when opening can fail and when a data  *)
(* file is closed from outside getHandles.  history counts the calls.      *)
(***************************************************************************)
\* a GET handed to processVarBinds of data file self; openOk tells whether
\* RecordIndex.getHandles can open its files (352-359)
lookupVars(self, oids, openOk) ==
    /\ phase.at = "running"
    /\ req = NoReq
    /\ Len(history) < MaxLookups
    /\ \E varBinds \in { VarBindsOf(oids, Null) } :
       \E r \in { CallWith(getHandles(self, openedQueue, isOpen, openOk),
                           Handles(self), varBinds, FALSE, FALSE) } :
        /\ req' = [pdu |-> "GetRequest", varBinds |-> varBinds]
        /\ rsp' = [exc |-> r.exc, varBinds |-> r.varBinds, calls |-> r.calls]
        /\ textPos' = r.st.pos
        /\ isOpen' = r.st.open
        /\ openedQueue' = r.st.queue
        /\ agentContexts' = r.st.agent
        /\ recordContexts' = r.st.record
        /\ history' = Append(history, <<"Request", self>>)
        /\ UNCHANGED <<file, recordIndex, config, routeVars>>

\* DataFile.close (327-328): the record index closes its files
close(self) ==
    /\ phase.at = "running"
    /\ req = NoReq
    /\ Len(history) < MaxLookups
    /\ isOpen' = isOpen \ { self }
    /\ textPos' = [textPos EXCEPT ![self] = 0]
    /\ history' = Append(history, <<"Close", self>>)
    /\ UNCHANGED <<file, recordIndex, config, dataFiles, openedQueue, req,
                   rsp, sent, walk, bulk, reqMsg, selected, pending, probe,
                   agentContexts, recordContexts, mainVars>>

QueueFiles == 1..2

InitQueue ==
    /\ file \in Files(CacheTags)
    /\ dataFiles = { Idents[k] : k \in QueueFiles }
    /\ Started
    /\ config \in { [DefaultConfig EXCEPT !.maxQueueEntries = k] :
                       k \in 0..MaxCap }
    /\ walk = NoWalk

NextQueue ==
    \/ \E self \in QueueFiles, oid \in CacheOids, openOk \in BOOLEAN :
          lookupVars(self, <<oid>>, openOk)
    \/ \E self \in QueueFiles : close(self)
    \/ Return

SpecQueue == InitQueue /\ [][NextQueue]_vars

(***************************************************************************)
(* configureManagedObjects over what getDataFiles found: a sequence of     *)
(* (fullPath, communityName).  A file reached through a symbolic link      *)
(* comes with the path of the file the link points to and the identifier   *)
(* of the link (517-532).  The controller of a data file goes by the path  *)
(* of the file.  --v2c-arch.                                               *)
(***************************************************************************)
\* most entries getDataFiles returns
MaxFound == 3

FullPaths == { "/d/f", "/d/g" }
CommunityNames == { "a", "b" }

\* _mibInstrums = {}, _dataFiles = {} (1110-1111); contexts holds nothing of
\* the data files yet; ignored lists the entries logged as duplicates
BeforeDataFiles ==
    [mibInstrums |-> {}, dataFiles |-> NoDict, contexts |-> NoDict,
     ignored |-> {}]

\* the pass with the shared file remembered under its identifier
ConfiguredRemembersShared(l, k, fullPath, communityName) ==
    IF communityName \in DOMAIN l.dataFiles
    THEN [l EXCEPT !.ignored = @ \cup { k }]
    ELSE IF fullPath \in l.mibInstrums
    THEN [l EXCEPT !.dataFiles = SetItem(@, communityName, fullPath),
                   !.contexts = SetItem(@, communityName, fullPath)]
    ELSE [l EXCEPT !.mibInstrums = @ \cup { fullPath },
                   !.dataFiles = SetItem(@, communityName, fullPath),
                   !.contexts = SetItem(@, communityName, fullPath)]

\* lines 1126-1156: one pass of the loop, for the k-th entry
Configured(l, k, fullPath, communityName) ==
    IF communityName \in DOMAIN l.dataFiles
    THEN [l EXCEPT !.ignored = @ \cup { k }]
    ELSE IF fullPath \in l.mibInstrums
    THEN [l EXCEPT !.contexts = SetItem(@, communityName, fullPath)]
    ELSE [l EXCEPT !.mibInstrums = @ \cup { fullPath },
                   !.dataFiles = SetItem(@, communityName, fullPath),
                   !.contexts = SetItem(@, communityName, fullPath)]

configureDataFile ==
    /\ phase.at = "configuring"
    /\ phase.n < Len(disk.dirContent)
    /\ \E found \in { disk.dirContent[phase.n + 1] } :
          locals' = Configured(locals, phase.n + 1, found.fullPath,
                               found.communityName)
    /\ phase' = [phase EXCEPT !.n = @ + 1]
    /\ UNCHANGED <<file, recordIndex, config, dataFiles, textPos, isOpen,
                   openedQueue, req, rsp, sent, walk, bulk, reqMsg, selected,
                   pending, history, probe, agentContexts, recordContexts,
                   modules, transportDispatcher, snmpEngines, disk>>

InitRegister ==
    /\ file = <<>>
    /\ dataFiles = {}
    /\ config = DefaultConfig
    /\ recordIndex = <<>>
    /\ Quiet
    /\ walk = NoWalk
    /\ phase = At("configuring", 0)
    /\ modules = Initialised
    /\ transportDispatcher = NotListening
    /\ locals = BeforeDataFiles
    /\ disk \in [dirContent :
                   UNION { [1..n -> [fullPath : FullPaths,
                                     communityName : CommunityNames]] :
                           n \in 1..MaxFound }]

NextRegister == configureDataFile

SpecRegister == InitRegister /\ [][NextRegister]_vars

(***************************************************************************)
(* What a record file answers, read off the file alone.                    *)
(***************************************************************************)
HasRecord(f, o) == \E k \in 1..Len(f) : f[k].oid = o
RecordAt(f, o) == f[CHOOSE k \in 1..Len(f) : f[k].oid = o]

AllWellFormed(f) == \A k \in 1..Len(f) : IsWellFormed(f[k])

\* the records above o, and the one of them with the smallest OID
Greater(f, o) == { k \in 1..Len(f) : OidLess(o, f[k].oid) }
Successor(f, o) ==
    f[CHOOSE k \in Greater(f, o) :
         \A j \in Greater(f, o) : ~OidLess(f[j].oid, f[k].oid)]

\* a well-formed plain record's own answer
Recorded(r) == VarBind(r.oid, DecodeValue(r.tag.code, r.value).val)

CoveredBySubtree(f, o) ==
    \E k \in 1..Len(f) : f[k].tag.subtree /\ IsPrefixOf(f[k].oid, o)

ReqOid(i) == req.varBinds[i].oid
ReqRange == 1..Len(req.varBinds)

(***************************************************************************)
(* C1.  Round trip: a GET for the OID of a plain record of the file is     *)
(* answered with that OID bound to the value decoded from the record's     *)
(* tag and value, whatever was served before; a GET that names only such   *)
(* records is answered.                                                    *)
(***************************************************************************)
NamesPlain(i) ==
    HasRecord(file, ReqOid(i)) /\ IsWellFormed(RecordAt(file, ReqOid(i)))

C1_RoundTrip ==
    req.pdu = "GetRequest" =>
        /\ (\A i \in ReqRange : NamesPlain(i)) => rsp.exc = "none"
        /\ rsp.exc = "none" =>
              \A i \in ReqRange :
                  NamesPlain(i) =>
                      rsp.varBinds[i] = Recorded(RecordAt(file, ReqOid(i)))

\* a GET of the second record of a file, which holds a variation record too
C1_Witness ==
    /\ req.pdu = "GetRequest"
    /\ rsp.exc = "none"
    /\ Len(file) >= 2
    /\ ~IsPlain(file[1])
    /\ ReqOid(1) = file[2].oid
    /\ IsWellFormed(file[2])
    /\ rsp.varBinds[1] = Recorded(file[2])
    /\ rsp.varBinds[1].val.type = "Counter64"

(***************************************************************************)
(* C2.  GETNEXT on a file of well-formed plain records: the answer to any  *)
(* OID, in the file or not, is the record with the smallest OID above it   *)
(* with its recorded value, and the request's OID bound to endOfMib when   *)
(* no record lies above it.                                                *)
(***************************************************************************)
NextRecorded(f, o) ==
    IF Greater(f, o) = {} THEN VarBind(o, endOfMib)
    ELSE Recorded(Successor(f, o))

C2_GetNext ==
    (req.pdu = "GetNextRequest" /\ AllWellFormed(file)) =>
        /\ rsp.exc = "none"
        /\ Len(rsp.varBinds) = Len(req.varBinds)
        /\ \A i \in ReqRange : rsp.varBinds[i] = NextRecorded(file, ReqOid(i))

\* GETNEXT on the first record's OID answers with the second record
C2_Witness ==
    /\ req.pdu = "GetNextRequest"
    /\ AllWellFormed(file)
    /\ Len(file) >= 2
    /\ ReqOid(1) = file[1].oid
    /\ rsp.exc = "none"
    /\ rsp.varBinds[1] = Recorded(file[2])

(***************************************************************************)
(* C3.  A GET for an OID that has no record and lies under no subtree      *)
(* record is answered with the request's OID bound to noSuchInstance.      *)
(***************************************************************************)
Uncovered(i) ==
    ~HasRecord(file, ReqOid(i)) /\ ~CoveredBySubtree(file, ReqOid(i))

\* C3 as claimed: for every file
C3_Original ==
    (req.pdu = "GetRequest" /\ rsp.exc = "none") =>
        \A i \in ReqRange :
            Uncovered(i) => rsp.varBinds[i] = VarBind(ReqOid(i), noSuchInstance)

\* the record the search rounds up to, if any, is a plain record
NeighbourPlain(i) ==
    Greater(file, ReqOid(i)) = {} \/ IsPlain(Successor(file, ReqOid(i)))

\* C3 as amended: the claim holds when the next greater record, if there is
\* one, is a plain record (a variation module is asked otherwise); a GET of
\* such OIDs alone is answered
C3_NoSuchInstance ==
    req.pdu = "GetRequest" =>
        /\ (\A i \in ReqRange : Uncovered(i) /\ NeighbourPlain(i))
              => rsp.exc = "none"
        /\ rsp.exc = "none" =>
              \A i \in ReqRange :
                  (Uncovered(i) /\ NeighbourPlain(i)) =>
                      rsp.varBinds[i] = VarBind(ReqOid(i), noSuchInstance)

\* a GET above the last record, and a GET below a plain record
C3_Witness ==
    /\ req.pdu = "GetRequest"
    /\ rsp.exc = "none"
    /\ Len(file) >= 1
    /\ \E i \in ReqRange :
          /\ Uncovered(i)
          /\ Greater(file, ReqOid(i)) = {}
          /\ rsp.varBinds[i] = VarBind(ReqOid(i), noSuchInstance)

(***************************************************************************)
(* C5.  Subtree coverage: a GET on an OID under a subtree record O that    *)
(* has no record of its own is answered with what evaluating O with        *)
(* exactMatch = false and subtreeFlag = true gives, whatever follows O.    *)
(***************************************************************************)
DerivedFrom(r, i) ==
    LET e == evaluate(r, [origOid |-> ReqOid(i),
                          origValue |-> req.varBinds[i].val,
                          subtreeFlag |-> TRUE,
                          exactMatch |-> FALSE,
                          errorStatus |-> noSuchInstance,
                          varsTotal |-> Len(req.varBinds),
                          varsRemaining |-> Len(req.varBinds) - i,
                          nextFlag |-> FALSE,
                          setFlag |-> FALSE])
    IN  VarBind(e.oid, e.val)

RECURSIVE OidsOf(_)
OidsOf(f) == IF f = <<>> THEN <<>> ELSE <<Head(f).oid>> \o OidsOf(Tail(f))

IsNonSubtree(r) == ~r.tag.subtree

IsPrefixSeq(a, b) == Len(a) <= Len(b) /\ SubSeq(b, 1, Len(a)) = a

\* C4 as claimed, on the files whose plain records decode: the walk never
\* repeats an OID, and when it has ended it has visited every non-subtree
\* record
C4_Original ==
    (\A k \in 1..Len(file) : IsPlain(file[k]) => IsWellFormed(file[k])) =>
        /\ \A i \in 1..(Len(walk.visited) - 1) :
              OidLess(walk.visited[i], walk.visited[i + 1])
        /\ walk.status = "done" =>
              \A k \in 1..Len(file) :
                  IsNonSubtree(file[k]) =>
                      \E i \in 1..Len(walk.visited) :
                          walk.visited[i] = file[k].oid

\* C4 as amended: on a file of well-formed plain records every GETNEXT of
\* the walk is answered, the OIDs visited are the OIDs of the file's first
\* records in the file's order, and the walk that has ended has visited
\* them all
C4_Walk ==
    AllWellFormed(file) =>
        /\ walk.status \in { "walking", "done" }
        /\ IsPrefixSeq(walk.visited, OidsOf(file))
        /\ walk.status = "done" => walk.visited = OidsOf(file)

\* a walk over two records that has ended
C4_Witness ==
    /\ AllWellFormed(file)
    /\ Len(file) >= 2
    /\ walk.status = "done"
    /\ walk.visited = OidsOf(file)
    /\ rsp.varBinds[1] = VarBind(file[Len(file)].oid, endOfMib)

(***************************************************************************)
(* C6.  v2c to v1 translation: a backend result for an SNMPv1 request      *)
(* that holds a Counter64, NoSuchObject, NoSuchInstance or EndOfMibView    *)
(* value is answered with the request's own variable bindings, errorIndex  *)
(* the position of the first such value, and errorStatus 5 when that value *)
(* is a Counter64 and 2 otherwise.                                         *)
(***************************************************************************)
Unrepresentable ==
    { "Counter64", "NoSuchObject", "NoSuchInstance", "EndOfMibView" }

Offending(varBinds) ==
    { i \in 1..Len(varBinds) : varBinds[i].val.type \in Unrepresentable }

C6_Translation ==
    (reqMsg.msgVer = 0 /\ req.pdu # "none" /\ rsp.exc = "none"
       /\ Offending(rsp.varBinds) # {}) =>
        LET first == CHOOSE i \in Offending(rsp.varBinds) :
                        \A j \in Offending(rsp.varBinds) : i <= j
        IN  /\ sent.msgVer = 0
            /\ sent.varBinds = req.varBinds
            /\ sent.errorIndex = first
            /\ sent.errorStatus =
                  IF rsp.varBinds[first].val.type = "Counter64" THEN 5 ELSE 2

\* an SNMPv1 GET of a Counter64 record and then of a missing OID
C6_Witness ==
    /\ reqMsg.msgVer = 0
    /\ req.pdu = "GetRequest"
    /\ rsp.exc = "none"
    /\ Len(rsp.varBinds) = 2
    /\ rsp.varBinds[1].val.type = "Counter64"
    /\ rsp.varBinds[2].val = noSuchInstance
    /\ sent.errorStatus = 5
    /\ sent.errorIndex = 1
    /\ sent.varBinds = req.varBinds

(***************************************************************************)
(* GETBULK: the request's N and R, the rounds the clamp allows, and the    *)
(* GETNEXT answers of a file of well-formed plain records.                 *)
(***************************************************************************)
IsBulk == req.pdu = "GetBulkRequest"

BulkN == Min(reqMsg.nonRepeaters, Len(req.varBinds))
BulkR == Len(req.varBinds) - BulkN
BulkRounds ==
    IF BulkR = 0 THEN 0
    ELSE Min(reqMsg.maxRepetitions, config.maxVarBinds \div BulkR)

GetNextOf(varBinds) ==
    [i \in 1..Len(varBinds) |-> NextRecorded(file, varBinds[i].oid)]

\* the variable bindings round j appended to the response
Round(j) ==
    SubSeq(rsp.varBinds, BulkN + (j - 1) * BulkR + 1, BulkN + j * BulkR)

RoundsMade == (Len(rsp.varBinds) - BulkN) \div Max(BulkR, 1)

(***************************************************************************)
(* C7.  GETBULK math: the request is answered by a response of exactly     *)
(* N + R * min(M0, floor(maxVarBinds / R)) variable bindings, N of them    *)
(* when R = 0.                                                             *)
(***************************************************************************)
C7_Length ==
    IsBulk =>
        /\ rsp.exc = "none"
        /\ Len(rsp.varBinds) = BulkN + BulkR * BulkRounds

(***************************************************************************)
(* C8.  GETBULK content: the response starts with the GETNEXT answers of   *)
(* the first N variable bindings of the request; every round appends the   *)
(* GETNEXT answers of its inputs, in order.                                *)
(***************************************************************************)
\* C8 as claimed: the inputs of every round are the last R variable
\* bindings of the response built so far
C8_Original ==
    (IsBulk /\ rsp.exc = "none") =>
        /\ SubSeq(rsp.varBinds, 1, BulkN)
              = GetNextOf(SubSeq(req.varBinds, 1, BulkN))
        /\ \A j \in 1..RoundsMade :
              Round(j) = GetNextOf(LastOf(SubSeq(rsp.varBinds, 1,
                                                BulkN + (j - 1) * BulkR),
                                         BulkR))

\* C8 as amended: the inputs of the first round are the last R variable
\* bindings of the request, the inputs of a later round are the R variable
\* bindings the round before it appended
C8_Content ==
    (IsBulk /\ rsp.exc = "none") =>
        /\ SubSeq(rsp.varBinds, 1, BulkN)
              = GetNextOf(SubSeq(req.varBinds, 1, BulkN))
        /\ \A j \in 1..RoundsMade :
              Round(j) = GetNextOf(IF j = 1
                                  THEN SubSeq(req.varBinds, BulkN + 1,
                                              Len(req.varBinds))
                                  ELSE Round(j - 1))

\* one non-repeater, one repeater and two rounds over a file of two records:
\* the first round starts from the request's last variable binding
C8_Witness ==
    /\ IsBulk
    /\ rsp.exc = "none"
    /\ Len(file) = 2
    /\ BulkN = 1
    /\ BulkR = 1
    /\ RoundsMade = 2
    /\ ReqOid(1) = file[1].oid
    /\ ReqOid(2) = file[1].oid
    /\ rsp.varBinds = <<Recorded(file[2]), Recorded(file[2]),
                        VarBind(file[2].oid, endOfMib)>>

(***************************************************************************)
(* C9.  GETBULK at the end of the MIB: once every repeater of a round is   *)
(* answered with endOfMib, no further round is appended.                   *)
(***************************************************************************)
AllEnd(j) == \A k \in 1..BulkR : Round(j)[k].val = endOfMib

\* C9 as claimed
C9_Original ==
    (IsBulk /\ rsp.exc = "none") =>
        \A j \in 1..RoundsMade : AllEnd(j) => j = RoundsMade

\* C9 as amended: a response that is returned holds all the rounds the
\* clamp allows, and a repeater that was answered with endOfMib is answered
\* with the same OID bound to endOfMib in every later round
C9_Filler ==
    (IsBulk /\ rsp.exc = "none") =>
        /\ Len(rsp.varBinds) = BulkN + BulkR * BulkRounds
        /\ \A j \in 1..(RoundsMade - 1) : \A k \in 1..BulkR :
              Round(j)[k].val = endOfMib => Round(j + 1)[k] = Round(j)[k]

\* three rounds on a file of one record: the record, then endOfMib twice
C9_Witness ==
    /\ IsBulk
    /\ rsp.exc = "none"
    /\ Len(file) = 1
    /\ BulkN = 0
    /\ BulkR = 1
    /\ OidLess(ReqOid(1), file[1].oid)
    /\ rsp.varBinds = <<Recorded(file[1]), VarBind(file[1].oid, endOfMib),
                        VarBind(file[1].oid, endOfMib)>>

(***************************************************************************)
(* C10.  The response to a GETBULK request never holds more than           *)
(* maxVarBinds variable bindings.                                          *)
(***************************************************************************)
C10_Cap ==
    (IsBulk /\ rsp.exc = "none") => Len(rsp.varBinds) <= config.maxVarBinds

(***************************************************************************)
(* C11: in every reachable state the number of data files with open file   *)
(* handles is at most DataFile.maxQueueEntries.                            *)
(***************************************************************************)
C11_Cap == Cardinality(isOpen) <= config.maxQueueEntries

(***************************************************************************)
(* C12: starting with no data file open, when the lookups have opened      *)
(* maxQueueEntries + 1 data files, all distinct, exactly one data file has *)
(* been closed, and it is the one that was opened first.                   *)
(***************************************************************************)
Openings == SelectSeq(history, IsOpening)

OpenedSoFar == { Openings[i][2] : i \in DOMAIN Openings }

C12_OldestClosed ==
    (/\ Len(Openings) = config.maxQueueEntries + 1
     /\ Cardinality(OpenedSoFar) = Len(Openings))
    => /\ OpenedSoFar \ isOpen = { Openings[1][2] }
       /\ SelectSeq(history, IsClosing) = << <<"Closing", Openings[1][2]>> >>

(***************************************************************************)
(* C13: a lookup on a data file leaves the data file open and is answered  *)
(* as a data file answers whose handles were never closed, wherever those  *)
(* handles stand; this is so for a data file the queue closed before.      *)
(***************************************************************************)
LastLogged == history[Len(history)]

C13_Transparent ==
    (history # <<>> /\ req # NoReq)
    => /\ LastLogged = <<"Request", LastLogged[2]>>
       /\ LastLogged[2] \in isOpen
       /\ \A p \in 0..Len(file) :
             rsp.varBinds =
                processVarBinds(file, recordIndex, req.varBinds, FALSE, FALSE,
                                TRUE, p).varBinds

\* a data file was closed by the queue, opened again by a later lookup, and
\* that lookup was answered with the value of a record
C13_Witness ==
    /\ req # NoReq
    /\ Len(history) >= 2
    /\ IsOpening(history[Len(history) - 1])
    /\ history[Len(history) - 1][2] = LastLogged[2]
    /\ \E i \in DOMAIN history : history[i] = <<"Closing", LastLogged[2]>>
    /\ rsp.exc = "none"
    /\ HasRecord(file, ReqOid(1))
    /\ rsp.varBinds = <<Recorded(RecordAt(file, ReqOid(1)))>>

(***************************************************************************)
(* C14: when opening a data file closes another, the data file closed is   *)
(* the open one whose latest request lies furthest back: every other open  *)
(* data file has served a request after the latest request of the one      *)
(* closed.                                                                 *)
(***************************************************************************)
LastRequest(d) ==
    IF \E i \in DOMAIN history : history[i] = <<"Request", d>>
    THEN CHOOSE i \in DOMAIN history :
            /\ history[i] = <<"Request", d>>
            /\ \A j \in (i + 1)..Len(history) : history[j] # <<"Request", d>>
    ELSE 0

C14_LeastRecentlyUsed ==
    [][\A c \in isOpen \ isOpen' :
          \A o \in isOpen \ { c } : LastRequest(c) < LastRequest(o)]_vars

(***************************************************************************)
(* C15: for context engine ID E, context name C, dotted transport domain D *)
(* and address element A, probeContext yields the paths E/C/D/A, E/C/D,    *)
(* E/C, E and then C/D/A, C/D, C, in this order; an empty component is     *)
(* left out of every path and yields no path of its own, with an empty E   *)
(* only the second group is yielded; the sequence is finite and is fixed   *)
(* by the arguments.  A path is the normalised join of its components.     *)
(***************************************************************************)
ProbedDomain == Dotted(probe.args[1])

ProbedAddress ==
    JoinWith(probe.args[2][1],
             IF IsPrefixOf(udpDomainName, probe.args[1]) THEN ":" ELSE "_")

WithEngineId(E, C, D, A) ==
    IF C # ""
    THEN <<normpath(<<E, C, D, A>>), normpath(<<E, C, D>>),
           normpath(<<E, C>>), normpath(<<E>>)>>
    ELSE <<normpath(<<E, D, A>>), normpath(<<E, D>>), normpath(<<E>>)>>

Legacy(C, D, A) ==
    IF C # ""
    THEN <<normpath(<<C, D, A>>), normpath(<<C, D>>), normpath(<<C>>)>>
    ELSE <<normpath(<<D, A>>), normpath(<<D>>)>>

C15_Candidates ==
    probe # NoProbe
    => /\ probe.candidates =
             (IF probe.args[3] # ""
              THEN WithEngineId(probe.args[3], probe.args[4], ProbedDomain,
                                ProbedAddress)
              ELSE <<>>)
             \o Legacy(probe.args[4], ProbedDomain, ProbedAddress)
       /\ Len(probe.candidates) <= 7

\* the call of the v2c path for community foo on the second UDPv4 endpoint
C15_Witness ==
    /\ probe.args = <<udpDomainName \o <<1>>, <<<<"127.0.0.1">>, 1161>>,
                      SELF_LABEL, "foo">>
    /\ probe.candidates =
          <<"self/foo/1.3.6.1.6.1.1.1/127.0.0.1", "self/foo/1.3.6.1.6.1.1.1",
            "self/foo", "self",
            "foo/1.3.6.1.6.1.1.1/127.0.0.1", "foo/1.3.6.1.6.1.1.1", "foo">>

(***************************************************************************)
(* Selection of the data file                                              *)
(***************************************************************************)
\* the names the dispatcher looks up for a request, in order, and the table
\* it looks them up in
ProbedOf(request) ==
    IF config.v2cArch
    THEN probeContext(request[1], request[2], request[3], request[4])
    ELSE Hashed(probeContext(request[1], request[2],
                             IF request[3] = snmpEngineID THEN SELF_LABEL
                             ELSE prettyPrint(request[3]),
                             request[4]))

Table == IF config.v2cArch THEN contexts ELSE contextNames

RegisteredIn(probed) == { i \in DOMAIN probed : probed[i] \in DOMAIN Table }

EarliestOf(sel, probed, registered) ==
    /\ sel.candidate \in registered
    /\ \A j \in registered : sel.candidate <= j
    /\ sel.contextName = probed[sel.candidate]
    /\ sel.mibInstrum = Table[probed[sel.candidate]]
    /\ sel.mibInstrum \in isOpen
    /\ sent # NoMsg

EarliestChosen(sel, probed) ==
    RegisteredIn(probed) # {} => EarliestOf(sel, probed, RegisteredIn(probed))

\* C16: in the v2c and in the v3 path the data file that answers a request
\* is the one registered under the earliest probeContext candidate found in
\* the context table; a later candidate is never chosen while an earlier one
\* is registered.
C16_FirstCandidate ==
    selected.request # <<>> =>
        EarliestChosen(selected, ProbedOf(selected.request))

\* a request with two registered candidates (foo/1.3.6.1.6.1.1.1 and foo on
\* the second endpoint) was answered
C16_Witness ==
    /\ selected.request # <<>>
    /\ Cardinality(RegisteredIn(ProbedOf(selected.request))) >= 2
    /\ selected.candidate # 0
    /\ sent # NoMsg

\* the request's own name is registered and its data file answers
OriginalServes(sel) ==
    /\ sel.mibInstrum = Table[sel.request[4]]
    /\ sel.mibInstrum \in isOpen
    /\ sent # NoMsg

\* nothing is sent and nothing is left pending
DroppedSilently == sent = NoMsg /\ pending = {}

\* C17: when no probeContext candidate is registered, the request's own
\* community or context name (the empty name included) is looked up; when
\* that is not registered either, no response is sent and the pending state
\* is released; in the v2c and in the v3 path.
C17_FallbackOrDrop ==
    (selected.request # <<>> /\ RegisteredIn(ProbedOf(selected.request)) = {})
        => IF selected.request[4] \in DOMAIN Table
           THEN OriginalServes(selected)
           ELSE DroppedSilently

(***************************************************************************)
(* Per-endpoint addressing: community foo on two UDPv4 endpoints           *)
(***************************************************************************)
\* the request in hand names foo and came in on the k-th endpoint (k from
\* 0), addressed to this engine
FooOn(k) ==
    /\ selected.request # <<>>
    /\ selected.request[1] = EndpointDomain(udpDomainName, k, 0)
    /\ selected.request[3] \in { SELF_LABEL, snmpEngineID }
    /\ selected.request[4] = "foo"

\* the request in hand is answered by the data file of ident
ServedFrom(ident) ==
    /\ ident \in dataFiles
    /\ selected.contextName \in { ident, md5(ident) }
    /\ selected.mibInstrum = DataFileOf(ident)
    /\ selected.mibInstrum \in isOpen
    /\ sent # NoMsg

\* the idents of the data files a request for foo on the second endpoint
\* can be served from, the most specific first
FooSecond ==
    <<"foo/1.3.6.1.6.1.1.1/127.0.0.1", "foo/1.3.6.1.6.1.1.1", "foo">>

FirstPresent(idents) ==
    idents[CHOOSE i \in DOMAIN idents :
              /\ idents[i] \in dataFiles
              /\ \A j \in 1..(i - 1) : idents[j] \notin dataFiles]

\* C18 as stated: with foo.snmprec in the data directory, community foo on
\* endpoint #2 is served from 1.3.6.1.6.1.1.1/foo.snmprec when that file
\* exists and from foo.snmprec otherwise; on endpoint #1 it is served from
\* foo.snmprec.
C18_Original ==
    "foo" \in dataFiles =>
        /\ FooOn(1) => IF "1.3.6.1.6.1.1.1/foo" \in dataFiles
                       THEN ServedFrom("1.3.6.1.6.1.1.1/foo")
                       ELSE ServedFrom("foo")
        /\ FooOn(0) => ServedFrom("foo")

\* C18: community foo on endpoint #2 (transport domain 1.3.6.1.6.1.1.1) is
\* served from the first that exists of foo/1.3.6.1.6.1.1.1/<source
\* address>.snmprec, foo/1.3.6.1.6.1.1.1.snmprec and foo.snmprec; on
\* endpoint #1 it is served from foo.snmprec; 1.3.6.1.6.1.1.1/foo.snmprec
\* is never the file that serves it.
C18_Endpoints ==
    /\ (FooOn(1) /\ \E i \in DOMAIN FooSecond : FooSecond[i] \in dataFiles)
            => ServedFrom(FirstPresent(FooSecond))
    /\ (FooOn(0) /\ "foo" \in dataFiles) => ServedFrom("foo")
    /\ (FooOn(0) \/ FooOn(1)) => ~ServedFrom("1.3.6.1.6.1.1.1/foo")

\* foo on the second endpoint was served from foo/1.3.6.1.6.1.1.1.snmprec
\* although foo.snmprec and 1.3.6.1.6.1.1.1/foo.snmprec exist
C18_Witness ==
    /\ FooOn(1)
    /\ { "foo", "1.3.6.1.6.1.1.1/foo" } \subseteq dataFiles
    /\ ServedFrom("foo/1.3.6.1.6.1.1.1")

(***************************************************************************)
(* Long names over SNMPv3                                                  *)
(***************************************************************************)
\* the request in hand is an SNMPv3 request whose context name is name
NamedV3(name) ==
    /\ ~config.v2cArch
    /\ selected.request # <<>>
    /\ selected.request[4] = name

\* the data file of ident answers the request in hand
Selects(ident) ==
    /\ selected.error = "none"
    /\ selected.mibInstrum = DataFileOf(ident)
    /\ selected.mibInstrum \in isOpen
    /\ sent # NoMsg

\* no candidate of the request in hand but the context name itself is
\* registered
OnlyByName(name) ==
    \A j \in RegisteredIn(ProbedOf(selected.request)) :
        ProbedOf(selected.request)[j] = Hashed(<<name>>)[1]

BothRegistered(ident) ==
    /\ md5(ident) \in DOMAIN contextNames
    /\ ident \in DOMAIN contextNames
    /\ contextNames[md5(ident)] = DataFileOf(ident)
    /\ contextNames[ident] = DataFileOf(ident)

DigestOnly(ident) ==
    /\ md5(ident) \in DOMAIN contextNames
    /\ ident \notin DOMAIN contextNames
    /\ contextNames[md5(ident)] = DataFileOf(ident)

BothSelect(ident) ==
    /\ (NamedV3(ident) /\ OnlyByName(ident)) => Selects(ident)
    /\ (NamedV3(md5(ident)) /\ OnlyByName(md5(ident))) => Selects(ident)

\* C19 as stated: over SNMPv3 every identifier, of more than 32 bytes or
\* not, is registered under its MD5 digest and under its literal, and a
\* request by either name selects its data file.
C19_Original ==
    ~config.v2cArch =>
        \A ident \in dataFiles : BothRegistered(ident) /\ BothSelect(ident)

\* C19: over SNMPv3 an identifier of more than 32 bytes is registered under
\* its MD5 digest only, one of at most 32 bytes under the digest and the
\* literal; a request whose context name is the digest or the literal
\* selects the identifier's data file in both cases (a literal of more than
\* 32 bytes is looked up by its digest), when no other candidate of the
\* request is registered.
C19_LongNames ==
    ~config.v2cArch =>
        \A ident \in dataFiles :
            /\ IF Len(ident) > 32 THEN DigestOnly(ident)
               ELSE BothRegistered(ident)
            /\ BothSelect(ident)

\* a request whose context name is the literal of more than 32 bytes was
\* answered from the data file registered under the digest
C19_Witness ==
    /\ LongName \in dataFiles
    /\ NamedV3(LongName)
    /\ selected.contextName = md5(LongName)
    /\ Selects(LongName)

(***************************************************************************)
(* NoDataNotification                                                      *)
(***************************************************************************)
\* the handles of a process that has served nothing yet
Fresh(self) ==
    [self |-> self, pos |-> [d \in DataFiles |-> 0], open |-> {},
     queue |-> <<>>, agent |-> NoContexts, record |-> NoContexts]

\* the response message for the answer r to the request in hand
Answer(r) ==
    IF r.exc # "none" THEN NoMsg
    ELSE IF config.v2cArch
    THEN sendMessage(Response(reqMsg, r.varBinds), selected.request[1],
                     selected.request[2])
    ELSE ResponseV3(r.varBinds)

\* the request in hand got the answer r
ServedAs(r) ==
    /\ rsp.exc = r.exc
    /\ rsp.varBinds = r.varBinds
    /\ sent = Answer(r)

\* the request in hand was served as a process serves it that never dropped
\* a request
ServedNormally == ServedAs(backendFun(reqMsg, Fresh(selected.mibInstrum), config))

\* C20: when a variation module raises NoDataNotification while a variable
\* binding of a request is evaluated, no response is sent for the request,
\* whatever was computed for earlier variable bindings, no state is left
\* pending, and the requests after it are served as if it had not been
\* made.
C20_Dropped ==
    /\ rsp.exc = "nodata" => (sent = NoMsg /\ pending = {})
    /\ (history # <<>> /\ req.pdu # "none" /\ selected.mibInstrum \in DataFiles)
            => ServedNormally

\* a request was dropped after two records had been evaluated for it, and a
\* later request has been answered
C20_Witness ==
    /\ history # <<>>
    /\ history[1][2] >= 2
    /\ req.pdu # "none"
    /\ rsp.exc = "none"
    /\ sent # NoMsg

(***************************************************************************)
(* Requests of several variable bindings                                   *)
(***************************************************************************)
\* the flags of the request in hand
IsNext == req.pdu = "GetNextRequest"
IsSet == req.pdu = "SetRequest"

\* the default error status of the request in hand
ErrorStatus == IF IsNext THEN endOfMib ELSE noSuchInstance

\* the evaluate calls made for the i-th variable binding of the request
CallsFor(i) ==
    SelectSeq(rsp.calls,
              LAMBDA c : c.context.varsRemaining = Len(req.varBinds) - i)

\* evaluating a line for the i-th variable binding raised an error that is
\* neither NoDataNotification nor MibOperationError
FailedAt(i) ==
    \E k \in DOMAIN CallsFor(i) :
        evaluate(file[CallsFor(i)[k].line + 1], CallsFor(i)[k].context).exc
            = "error"

\* seq without its i-th element
Without(seq, i) == SubSeq(seq, 1, i - 1) \o SubSeq(seq, i + 1, Len(seq))

\* the answers without the i-th are the answers to the request without its
\* i-th variable binding
SameWithout(i, r) ==
    /\ r.exc = "none"
    /\ r.varBinds = Without(rsp.varBinds, i)

Isolated(i) ==
    /\ rsp.exc = "none"
    /\ Len(rsp.varBinds) = Len(req.varBinds)
    /\ rsp.varBinds[i] = VarBind(req.varBinds[i].oid, ErrorStatus)
    /\ SameWithout(i, processVarBinds(file, recordIndex,
                                      Without(req.varBinds, i), IsNext, IsSet,
                                      TRUE, 0))

\* C21: when evaluating a line for one variable binding fails with an error
\* other than NoDataNotification or MibOperationError, that variable
\* binding is answered with the request OID bound to the default error
\* status (endOfMib for GETNEXT, noSuchInstance otherwise) and every other
\* variable binding of the request is answered as in the request without
\* the failing one.
C21_Isolation ==
    \A i \in DOMAIN req.varBinds : FailedAt(i) => Isolated(i)

\* the second of three variable bindings failed and the other two were
\* answered with values of records
C21_Witness ==
    /\ Len(req.varBinds) = 3
    /\ FailedAt(2)
    /\ rsp.exc = "none"
    /\ rsp.varBinds[1].val.type \in { "OctetString", "Opaque" }
    /\ rsp.varBinds[3].val.type \in { "OctetString", "Opaque" }

\* the answer to the i-th variable binding asked alone
AnswerTo(i) ==
    processVarBinds(file, recordIndex, <<req.varBinds[i]>>, IsNext, IsSet,
                    TRUE, 0).varBinds[1]

\* the variable binding the k-th evaluate call was made for
BindingOf(k) == Len(req.varBinds) - rsp.calls[k].context.varsRemaining

InRequestOrder ==
    /\ \A k \in DOMAIN rsp.calls :
          /\ rsp.calls[k].context.varsTotal = Len(req.varBinds)
          /\ BindingOf(k) \in DOMAIN req.varBinds
          /\ rsp.calls[k].context.origOid = req.varBinds[BindingOf(k)].oid
    /\ \A k \in 1..(Len(rsp.calls) - 1) : BindingOf(k) <= BindingOf(k + 1)

\* C22: for a GET, GETNEXT or SET request of n variable bindings that is
\* not dropped, processVarBinds returns n variable bindings, the i-th is
\* the answer to the i-th of the request, and the lines are evaluated in
\* the order of the request: for the i-th variable binding with
\* varsTotal = n and varsRemaining = n - i.
C22_Ordering ==
    (req # NoReq /\ rsp.exc = "none")
        => /\ Len(rsp.varBinds) = Len(req.varBinds)
           /\ \A i \in DOMAIN req.varBinds : rsp.varBinds[i] = AnswerTo(i)
           /\ InRequestOrder

\* three variable bindings with three different answers, each evaluated
C22_Witness ==
    /\ Len(req.varBinds) = 3
    /\ rsp.exc = "none"
    /\ Len(rsp.calls) = 3
    /\ Cardinality({ rsp.varBinds[i] : i \in 1..3 }) = 3
    /\ req.varBinds[1].oid # req.varBinds[3].oid

(***************************************************************************)
(* SET                                                                     *)
(***************************************************************************)
\* the lines evaluated for the i-th variable binding are plain records, and
\* there is one
SelectedPlain(i) ==
    /\ CallsFor(i) # <<>>
    /\ \A k \in DOMAIN CallsFor(i) : IsPlain(file[CallsFor(i)[k].line + 1])

\* what a GET of oid returns from the record store db of f with the handle
\* at pos
GetOf(f, db, oid, pos) ==
    processVarBinds(f, db, <<VarBind(oid, Null)>>, FALSE, FALSE, TRUE,
                    pos).varBinds

\* a SET is handed to the data file
SetStep == req = NoReq /\ req'.pdu = "SetRequest"

\* C24: a SET on an OID whose selected record has no variation module is
\* answered with the OID of the request bound to noSuchInstance and leaves
\* the record store as it was: a GET after it returns what it returned
\* before it.
C24_ReadOnly ==
    /\ [](\A i \in DOMAIN req.varBinds :
            (IsSet /\ rsp.exc = "none" /\ SelectedPlain(i))
                => rsp.varBinds[i] = VarBind(req.varBinds[i].oid,
                                             noSuchInstance))
    /\ [][SetStep => /\ file' = file
                     /\ recordIndex' = recordIndex
                     /\ \A oid \in BatchOids :
                           GetOf(file', recordIndex', oid, textPos'[Self])
                               = GetOf(file, recordIndex, oid, textPos[Self])]_vars

\* a SET of a new value on the OID of a plain record that holds a value was
\* answered with noSuchInstance
C24_Witness ==
    /\ IsSet
    /\ rsp.exc = "none"
    /\ SelectedPlain(1)
    /\ rsp.calls[1].context.exactMatch
    /\ IsWellFormed(file[rsp.calls[1].line + 1])
    /\ rsp.varBinds[1] = VarBind(req.varBinds[1].oid, noSuchInstance)

(***************************************************************************)
(* The v2c pipeline: one response at most                                  *)
(***************************************************************************)
\* the message in hand names a community under which no candidate of the
\* endpoint it came in on is registered
SelectsNothing ==
    selected.request = <<>>
    \/ \A i \in DOMAIN ProbedOf(selected.request) :
          ProbedOf(selected.request)[i] \notin DOMAIN contexts

\* the messages the pipeline never answers
Unanswerable ==
    \/ reqMsg.msgVer \notin protoModules
    \/ reqMsg.pdu = "GetBulkRequest" /\ reqMsg.msgVer = 0
    \/ reqMsg.pdu \notin { "GetRequest", "SetRequest", "GetNextRequest",
                           "GetBulkRequest" }
    \/ SelectsNothing

\* what the method of the controller the PDU type stands for returns
MethodFor(msg, self) ==
    CASE msg.pdu = "GetRequest" ->
            processVarBinds(file, recordIndex, msg.varBinds, FALSE, FALSE,
                            TRUE, 0)
      [] msg.pdu = "SetRequest" ->
            processVarBinds(file, recordIndex, msg.varBinds, FALSE, TRUE,
                            TRUE, 0)
      [] msg.pdu = "GetNextRequest" ->
            processVarBinds(file, recordIndex, msg.varBinds, TRUE, FALSE,
                            TRUE, 0)
      [] OTHER ->
            getBulkHandler(Fresh(self), msg.varBinds, msg.nonRepeaters,
                           msg.maxRepetitions, config)

\* the one response: the answer r in a message of the request's version, on
\* its way to where the request came from
OneResponse(r) ==
    IF r.exc # "none" THEN rsp.exc = r.exc /\ sent = NoMsg
    ELSE /\ rsp.exc = "none"
         /\ rsp.varBinds = r.varBinds
         /\ sent # NoMsg
         /\ sent.msgVer = reqMsg.msgVer
         /\ sent.varBinds = Response(reqMsg, r.varBinds).varBinds
         /\ sent.transportDomain = selected.request[1]
         /\ sent.transportAddress = selected.request[2]

\* C25: a message of an unknown SNMP version, a GETBULK over SNMPv1, a PDU
\* of an unsupported type and a community that selects no data file get no
\* response; every other message whose handler returns gets one response,
\* sent to the transport domain and address it came from, with the answer
\* of readVars for a GetRequest, writeVars for a SetRequest, readNextVars
\* for a GetNextRequest and the bulk handler for a GetBulkRequest.
C25_OneResponse ==
    reqMsg # NoReqMsg =>
        IF Unanswerable THEN sent = NoMsg
        ELSE OneResponse(MethodFor(reqMsg, selected.mibInstrum))

\* a GETNEXT that came in on the second endpoint was answered there
C25_Witness ==
    /\ reqMsg # NoReqMsg
    /\ ~Unanswerable
    /\ reqMsg.pdu = "GetNextRequest"
    /\ selected.request[1] = EndpointDomain(udpDomainName, 1, 0)
    /\ sent # NoMsg
    /\ sent.transportDomain = EndpointDomain(udpDomainName, 1, 0)
    /\ sent.varBinds[1].val.type = "OctetString"

(***************************************************************************)
(* Variation contexts                                                      *)
(***************************************************************************)
SameAgent(a, b) == a.module = b.module /\ a.dataFile = b.dataFile
SameRecord(a, b) == SameAgent(a, b) /\ a.oid = b.oid

\* the calls of variate before call n that were for the same record
Earlier(n) == { k \in 1..(n - 1) : SameRecord(history[k], history[n]) }

\* two calls see one dictionary when, and only when, they are for the same
\* module and data file (and record)
SameObjects(a, b) ==
    /\ (a.agentContext = b.agentContext) = SameAgent(a, b)
    /\ (a.recordContext = b.recordContext) = SameRecord(a, b)
    /\ a.agentContext # b.recordContext

\* the dictionaries the modules have now are the ones call n saw
Kept(n) ==
    /\ <<history[n].module, history[n].dataFile,
         agentContexts[<<history[n].module, history[n].dataFile>>].id>>
          = history[n].agentContext
    /\ <<history[n].module, history[n].dataFile, history[n].oid,
         recordContexts[<<history[n].module, history[n].dataFile,
                          history[n].oid>>].id>> = history[n].recordContext

\* C23: every call of variate for a module, a data file and a record sees
\* the same recordContext, and the same agentContext for the module and the
\* data file, whether or not the data file was closed and opened again in
\* between; the dictionaries are never replaced; calls for different
\* modules, data files or records see different dictionaries; and the
\* numeric module, which counts in recordContext, returns v, v+1, v+2, ...
\* on successive GETs of a record: the first call found the dictionary
\* empty.
C23_Contexts ==
    \A n \in DOMAIN history :
        /\ \A k \in DOMAIN history : SameObjects(history[k], history[n])
        /\ Kept(n)
        /\ history[n].module = "numeric" =>
              history[n].value
                 = Val("Integer32", <<NumericStart + Cardinality(Earlier(n))>>)

\* three GETs of a record of the numeric module got v, v+1 and v+2, and the
\* data file was closed after the first and opened again for the last
C23_Witness ==
    \E n \in DOMAIN history :
        /\ history[n].module = "numeric"
        /\ history[n].opened
        /\ Cardinality(Earlier(n)) = 2
        /\ history[n].value = Val("Integer32", <<NumericStart + 2>>)

(***************************************************************************)
(* The process: the dispatcher loop, the modules, startup                  *)
(***************************************************************************)
\* C26: nothing that goes wrong with one request ends the dispatcher loop:
\* the loop is left on the shutdown signal only.
C26_LoopSurvives ==
    phase.at = "stopping" => phase.cause = "KeyboardInterrupt"

\* a module whose init was called
Inited(m) == modules[m].loaded /\ modules[m].init >= 1

\* C27: init of a loaded module is called once, before the dispatcher runs
\* and so before variate of the module is called; shutdown is called once
\* when the process exits, and not before the dispatcher loop is left, so
\* that no variate comes after it.
C27_Lifecycle ==
    \A m \in variationModules :
        /\ modules[m].init <= 1
        /\ modules[m].shutdown <= 1
        /\ phase.at = "running" =>
              modules[m].loaded /\ modules[m].init = 1
                 /\ modules[m].shutdown = 0
        /\ (phase.at = "exited" /\ Inited(m)) => modules[m].shutdown = 1

\* shutdown of every module was called
AllShutDown ==
    \A m \in variationModules : modules[m].loaded => modules[m].shutdown = 1

\* C28: when the dispatcher loop is left, for KeyboardInterrupt or for any
\* other exception, shutdown of every loaded module is called, whether or
\* not the shutdown of another module raised, and the dispatcher is closed
\* after that.
C28_Shutdown ==
    /\ [](transportDispatcher.closed => AllShutDown)
    /\ (phase.at = "stopping") ~> (AllShutDown /\ transportDispatcher.closed)

\* the loop was left for an exception, the shutdown of the first module
\* raised, and every module was shut down before the dispatcher was closed
C28_Witness ==
    /\ phase.at = "exited"
    /\ phase.cause = "PySnmpError"
    /\ modules[ModuleFiles[1]].failed
    /\ AllShutDown
    /\ transportDispatcher.closed

\* C29: the process does not end because the index of one data file could
\* not be built or one variation module could not be loaded.
C29_Isolated ==
    phase.at = "exited" =>
        phase.cause \notin { "SnmpsimError", "execution failure" }

(***************************************************************************)
(* Transport domains                                                       *)
(***************************************************************************)
\* the endpoint options of the transport of option i that come before it
Before(i) ==
    { j \in 1..(i - 1) :
         /\ IsEndpoint(config.v3Args[j])
         /\ FamilyOf(config.v3Args[j]) = FamilyOf(config.v3Args[i]) }

\* the transport domain the claim gives the endpoint of option i
DomainFor(i) ==
    DomainNameOf(FamilyOf(config.v3Args[i]))
       \o <<config.transportIdOffset + Cardinality(Before(i))>>

Transports == transportDispatcher.transports

\* C30: the k-th endpoint of a transport (UDPv4, UDPv6 or UNIX), counted
\* from 0 in the order of the options, is registered under the domain name
\* of the transport followed by transportIdOffset + k, each transport
\* counting for itself; no two registered endpoints have the same transport
\* domain, with one SNMP engine or several.
C30_Domains ==
    /\ \A n \in DOMAIN Transports :
          Transports[n].transportDomain = DomainFor(Transports[n].endpoint)
    /\ \A n, k \in DOMAIN Transports :
          n # k => Transports[n].transportDomain # Transports[k].transportDomain

\* two SNMP engines with a UDPv4 endpoint each and a UDPv6 endpoint, with
\* --transport-id-offset=1: the second engine's UDPv4 endpoint is 2
C30_Witness ==
    /\ phase.at = "running"
    /\ config.transportIdOffset = 1
    /\ \E n, k, u \in DOMAIN Transports :
          /\ Transports[n].engine = 1
          /\ Transports[n].transportDomain = udpDomainName \o <<1>>
          /\ Transports[k].engine = 2
          /\ Transports[k].transportDomain = udpDomainName \o <<2>>
          /\ Transports[u].transportDomain = udp6DomainName \o <<1>>

(***************************************************************************)
(* C31: v3 option scoping.  Every SNMP engine main has configured holds    *)
(* the options of its own block and nothing else: its endpoints, its       *)
(* --max-varbinds (the global one when the block has none), its users      *)
(* with their keys (the user simulator when the block has none) and its    *)
(* context engine IDs with their data directories are those given between  *)
(* its --v3-engine-id and the next one.  The loop never goes past a block  *)
(* without an endpoint: main returns 1 at its end, and every exit of the   *)
(* loop but the last is with 1.  The options before the first              *)
(* --v3-engine-id are the block of the engine 'auto'.                      *)
(***************************************************************************)
BlockStarts ==
    { i \in DOMAIN config.v3Args : config.v3Args[i][1] = "--v3-engine-id" }
        \cup (IF config.v3Args[1][1] # "--v3-engine-id" THEN { 0 } ELSE {})

BlockEnd(s) ==
    LET later == { t \in BlockStarts : t > s } \cup { Len(config.v3Args) + 1 }
    IN  CHOOSE t \in later : \A u \in later : t <= u

Block(s) == (s + 1)..(BlockEnd(s) - 1)

Ordinal(s) == Cardinality({ t \in BlockStarts : t <= s })

\* the values of the options of a name at the places idx, in their order
ValuesAt(idx, name) ==
    LET at == SelectSeq([i \in 1..Len(config.v3Args) |-> i],
                        LAMBDA i : i \in idx /\ config.v3Args[i][1] = name)
    IN  [j \in 1..Len(at) |-> config.v3Args[at[j]][2]]

\* the key given in block s to the user of a name
KeyIn(s, name) ==
    LET keys == { i \in Block(s) :
                    /\ config.v3Args[i][1] = "--v3-auth-key"
                    /\ \E u \in Block(s) :
                          /\ u < i
                          /\ config.v3Args[u] = <<"--v3-user", name>>
                          /\ \A m \in (u + 1)..(i - 1) :
                                config.v3Args[m][1] # "--v3-user" }
    IN  IF keys = {} THEN None
        ELSE config.v3Args[CHOOSE i \in keys : TRUE][2]

\* the places of block s that follow its c-th --v3-context-engine-id, up to
\* the next one
ContextPlaces(s, c) ==
    LET ids == SelectSeq([i \in 1..Len(config.v3Args) |-> i],
                         LAMBDA i : /\ i \in Block(s)
                                    /\ config.v3Args[i][1]
                                          = "--v3-context-engine-id")
    IN  (ids[c] + 1)..((IF c < Len(ids) THEN ids[c + 1] ELSE BlockEnd(s)) - 1)

\* the places of block s before any --v3-context-engine-id
PlainPlaces(s) ==
    { i \in Block(s) :
        \A m \in (s + 1)..i :
           config.v3Args[m][1] # "--v3-context-engine-id" }

DataDirsFor(s, places) ==
    IF ValuesAt(places, "--data-dir") # <<>>
    THEN ValuesAt(places, "--data-dir")
    ELSE IF ValuesAt(PlainPlaces(s), "--data-dir") # <<>>
    THEN ValuesAt(PlainPlaces(s), "--data-dir")
    ELSE config.data

OwnOptions(s, e) ==
    /\ e.endpoints = ValuesAt(Block(s), "--agent-udpv4-endpoint")
    /\ e.endpoints # <<>>
    /\ e.maxVarBinds =
          IF ValuesAt(Block(s), "--max-varbinds") = <<>>
          THEN config.maxVarBinds
          ELSE ValuesAt(Block(s), "--max-varbinds")[
                  Len(ValuesAt(Block(s), "--max-varbinds"))]
    /\ IF ValuesAt(Block(s), "--v3-user") = <<>>
       THEN e.users = << [v3User |-> "simulator", authProto |-> "MD5",
                          authKey |-> "auctoritas", privProto |-> "DES",
                          privKey |-> "privatus"] >>
       ELSE /\ [j \in DOMAIN e.users |-> e.users[j].v3User]
                  = ValuesAt(Block(s), "--v3-user")
            /\ \A j \in DOMAIN e.users :
                  /\ e.users[j].authKey = KeyIn(s, e.users[j].v3User)
                  /\ e.users[j].authProto =
                        IF e.users[j].authKey = None THEN "NONE" ELSE "MD5"
                  /\ e.users[j].privKey = None
                  /\ e.users[j].privProto = "NONE"
    /\ IF ValuesAt(Block(s), "--v3-context-engine-id") = <<>>
       THEN e.contexts = << [contextEngineId |-> None,
                             dataDirs |-> DataDirsFor(s, {})] >>
       ELSE /\ [c \in DOMAIN e.contexts |-> e.contexts[c].contextEngineId]
                  = ValuesAt(Block(s), "--v3-context-engine-id")
            /\ \A c \in DOMAIN e.contexts :
                  e.contexts[c].dataDirs
                     = DataDirsFor(s, ContextPlaces(s, c))

\* the blocks whose end the loop has come to
Passed ==
    { s \in BlockStarts :
        \/ phase.at = "running"
        \/ /\ phase.at = "engines"
           /\ phase.n - (IF 0 \in BlockStarts THEN 1 ELSE 0) >= BlockEnd(s) }

C31_Scoping ==
    /\ Len(snmpEngines) <= Cardinality(BlockStarts)
    /\ \A s \in BlockStarts :
          /\ Ordinal(s) <= Len(snmpEngines)
                => OwnOptions(s, snmpEngines[Ordinal(s)])
          /\ s \in Passed
                => /\ Ordinal(s) <= Len(snmpEngines)
                   /\ ValuesAt(Block(s), "--agent-udpv4-endpoint") # <<>>
    /\ phase.at = "exited" => phase.n = 1

\* two engines were named and configured: the first with a user, the
\* second with none
C31_Witness ==
    /\ phase.at = "running"
    /\ Len(snmpEngines) = 2
    /\ snmpEngines[1].users[1].v3User = "u"
    /\ snmpEngines[2].users[1].v3User = "simulator"
    /\ config.v3Args[1][1] = "--v3-engine-id"

(***************************************************************************)
(* C32 -- Index life cycle.  As stated: create builds the index exactly    *)
(* when forceBuild is set, the index is missing or the index is stale; a   *)
(* mismatch the scan of validate finds makes it build again; and whenever  *)
(* create returns, the index is Fresh: neither stale nor corrupt with      *)
(* respect to the text file.                                               *)
(* As amended: the same, but the index create returns with is known not to *)
(* be stale; it is Fresh when validate was set or when create built it.    *)
(***************************************************************************)
\* the index file is neither stale nor such that the scan finds a mismatch
IsFresh(index, f, textTime) ==
    /\ index.exists
    /\ ~IsStale(index, f, textTime)
    /\ ~Mismatch(index.entries, f)

\* create built when, and only when, it had to
BuildsWhenDue ==
    /\ disk.call.builds >= 1
         <=> \/ disk.call.forceIndexBuild
             \/ disk.call.missing
             \/ disk.call.stale
             \/ disk.call.validateData /\ disk.call.mismatch
    /\ disk.call.builds = 2
         <=> /\ disk.call.forceIndexBuild \/ disk.call.missing \/ disk.call.stale
             /\ disk.call.validateData /\ disk.call.mismatch

EntriesOf(db, o) == { i \in 1..Len(db) : db[i].oid = o }

\* the entry that has n - 1 keys below its own
EntryOfRank(db, n) ==
    db[CHOOSE i \in 1..Len(db) :
          Cardinality({ j \in 1..Len(db) : OidLess(db[j].oid, db[i].oid) }) = n - 1]

\* the OIDs of the lines read at the offsets of the entries, keys ascending
ReadByKey(f, db) ==
    [n \in 1..Len(db) |-> f[getRecord(f, EntryOfRank(db, n).offset).line + 1].oid]

\* the OIDs a linear scan of the text reads
LinearScan(f) == [k \in 1..Len(f) |-> f[k].oid]

ExtsOf(below) ==
    { e \in RECORD_TYPES : EndsWith(below[Len(below)], <<extsep>> \o e) }

\* the identifier the claim gives the file
IsIdentOf(ident, below, e) ==
    IF below = <<SelfName \o <<extsep>> \o e>> THEN ident = <<>>
    ELSE ident \o <<extsep>> \o e
           = JoinChars(IF below[1] = SelfName THEN Tail(below) ELSE below, "/")

C34_Identifier ==
    (phase.at # "configuring" \/ phase.n # 0)
    => \A e \in ExtsOf(disk.below) :
          disk.below # <<SelfName, SelfName \o <<extsep>> \o e>>
          => /\ phase.at = "configuring"
             /\ \E ident \in dataFiles :
                   /\ dataFiles = { ident }
                   /\ IsIdentOf(ident, disk.below, e)

(***************************************************************************)
(* C35 -- endOfMib redirect.  When, during a GETNEXT, the evaluation of    *)
(* record r yields endOfMib, the record evaluated next is the record that  *)
(* follows r in the file, evaluated as an exact match, and when r is the   *)
(* last record the request OID is answered with endOfMib; on every path    *)
(* that chose r, the one through the record at prev-offset included.       *)
(***************************************************************************)
\* the n-th evaluation of the lookup yielded endOfMib
YieldsEndOfMib(n) ==
    /\ evaluate(file[rsp.calls[n].line + 1], rsp.calls[n].context).exc = "none"
    /\ evaluate(file[rsp.calls[n].line + 1], rsp.calls[n].context).val = endOfMib

C36_Terminates ==
    rsp # NoRsp
    => /\ rsp.exc # "hang"
       /\ \A i \in 1..Len(req.varBinds) : Len(CallsFor(i)) <= Len(file)

(***************************************************************************)
(* C37 -- GETBULK expansion terminates.  For every request length, every   *)
(* nonRepeaters and maxRepetitions and every maxVarBinds of at least 1,    *)
(* also one that is no multiple of the number R of repeaters, the          *)
(* repetition loop of getBulkHandler stops after exactly                   *)
(* min(maxRepetitions, floor(maxVarBinds / R)) rounds.                     *)
(***************************************************************************)
C37_Rounds ==
    (IsBulk /\ BulkR > 0)
    => /\ rsp.exc = "none"
       /\ bulk.R = BulkR
       /\ bulk.rounds
            = Min(reqMsg.maxRepetitions, config.maxVarBinds \div BulkR)

(***************************************************************************)
(* C38 -- Open-queue consistency.  After any sequence of lookups,          *)
(* evictions, failed opens and calls of close, DataFile.openedQueue holds  *)
(* every data file at most once, and a data file is in the queue if and    *)
(* only if its file handles are open.                                      *)
(***************************************************************************)
\* the places data file d has in the queue
PlacesOf(d) == { k \in 1..Len(openedQueue) : openedQueue[k] = d }

C38_Consistent ==
    \A d \in DataFiles :
        /\ Cardinality(PlacesOf(d)) <= 1
        /\ PlacesOf(d) # {} <=> d \in isOpen

(***************************************************************************)
(* C39 -- Registrations are never re-bound.  Once an agent identifier has  *)
(* been registered for a data file, no file found later under the same     *)
(* identifier replaces it, also when the earlier registration was made for *)
(* a shared file, one reached a second time under another identifier.      *)
(***************************************************************************)
\* the entries configureManagedObjects has been through
Seen == 1..phase.n

\* the first entry with the identifier
FirstWith(communityName) ==
    CHOOSE k \in Seen :
        /\ disk.dirContent[k].communityName = communityName
        /\ \A j \in 1..(k - 1) :
              disk.dirContent[j].communityName # communityName

C39_NeverRebound ==
    \A k \in Seen :
        /\ disk.dirContent[k].communityName \in DOMAIN locals.contexts
        /\ locals.contexts[disk.dirContent[k].communityName]
             = disk.dirContent[FirstWith(disk.dirContent[k].communityName)].fullPath

(***************************************************************************)
(* C40 -- No variate without successful init.  While requests are handled, *)
(* variate of a variation module is called only if the module's init has   *)
(* returned without raising at startup.                                    *)
(***************************************************************************)
\* the module the n-th evaluated line names, "" for a plain record
ModuleOfCall(n) == file[rsp.calls[n].line + 1].tag.mod

C40_InitBeforeVariate ==
    \A n \in 1..Len(rsp.calls) :
        ModuleOfCall(n) \in variationModules
        => /\ modules[ModuleOfCall(n)].init >= 1
           /\ ~modules[ModuleOfCall(n)].initFailed

====
